---- MODULE Spec2Model ----
(***************************************************************************)
(* A model of SQLer: the SQLite adapter (connection, reentrant lock,       *)
(* transactions), the JSON document store built on it, the record layer    *)
(* (SQLerModel / AsyncSQLerModel) and the versioned record layer           *)
(* (SQLerSafeModel / AsyncSQLerSafeModel).                                 *)
(***************************************************************************)
EXTENDS Integers, Sequences, FiniteSets, TLC

(***************************************************************************)
(* Bounds of the model.                                                    *)
(***************************************************************************)
MaxId == 2          \* largest row id a table hands out in a run
MaxBatch == 2       \* longest list passed to bulk_upsert
NumCallers == 2     \* record instances / callers / threads
MaxVersion == 2     \* largest stored _version in a run
MaxConnects == 2    \* connections an adapter makes in a run
MaxParents == 1     \* rows of the referring table in a run

\* Python's None for an absent _id (row ids start at 1).
NoId == 0

Callers == 1..NumCallers
Ids == 1..MaxId
\* Attribute values: two distinguishable payload values.
Vals == {1, 2}
Versions == 0..MaxVersion

Max(a, b) == IF a >= b THEN a ELSE b

(***************************************************************************)
(* State.                                                                  *)
(***************************************************************************)
VARIABLES
    rows,        \* the table: a set of rows [_id, data, _version]
    seq,         \* sqlite_sequence of the table (AUTOINCREMENT high-water mark)
    inst,        \* inst[c]: the record instance caller c holds
    lastOp,      \* the last completed call: [op, c, id, doc, err]
    issueCount,  \* issueCount[i]: how often id i was returned for a new row
    boundIds,    \* boundIds[c]: the id values instance c was ever bound to
    kind,        \* the versioned record class in use: "sync" (SQLerSafeModel)
                 \* or "async" (AsyncSQLerSafeModel)
    call,        \* call[c]: caller c's save in progress (position, arguments, result)
    won,         \* won[id][v]: successful saves made holding row id at version v
    recov,       \* recov[c]: where c is in "stale, refresh, save again"
    intervened,  \* intervened[c]: another writer wrote since c's stale save
    conn,        \* SQLiteAdapter.connection: 0 for None, else the connection's number
    nConn,       \* connections made so far
    lockOwner,   \* the thread that holds SQLiteAdapter._lock, 0 when it is free
    committed,   \* the committed writes of the database
    pending,     \* the uncommitted writes of the open transaction
    th,          \* th[t]: thread t's position, operation, last result, scope, cursor
    nClose,      \* close() calls made so far (counted up to 2)
    ctab,        \* the table of the referenced record type: [rows, seq]
    ptab,        \* the table of the referring record type: [rows, seq]
    cin,         \* an instance of the referenced type held by a caller
    pin,         \* an instance of the referring type held by a caller
    relOp,       \* the last call on the referring type and its outcome
    bulk,        \* the bulk_upsert call in progress: position, docs, both max(id) reads
    rt,          \* rt[c]: caller c's load-modify-save round and its save attempts
    env,         \* configuration flags and the number of writes made to the table
    bind,        \* record types: their bound tables, the registry, the tables made
    qs,          \* query builders and expressions in use, and the data they run on
    cn,          \* the connections a SQLerDB handle has opened and their databases
    tx           \* two threads on one handle: their positions and the open transaction

storeVars == <<rows, seq, inst, lastOp, issueCount, boundIds>>
safeVars == <<kind, call, won, recov, intervened>>
adapterVars == <<conn, nConn, lockOwner, committed, pending, th, nClose>>
relVars == <<ctab, ptab, cin, pin, relOp>>
bulkVars == <<bulk>>
retryVars == <<rt, env>>
moreVars == <<bulkVars, retryVars>>
lateVars == <<bind, qs, cn, tx>>
extVars == <<relVars, moreVars, lateVars>>
vars == <<storeVars, safeVars, adapterVars, extVars>>

(***************************************************************************)
(* JSON text.  json.dumps writes the members of the dict; json.loads reads *)
(* them back into a dict.  The text is modelled as its set of members.     *)
(***************************************************************************)
json_dumps(doc) == {<<k, doc[k]>> : k \in DOMAIN doc}

json_loads(text) ==
    [k \in {m[1] : m \in text} |-> (CHOOSE m \in text : m[1] = k)[2]]

\* The documents callers pass: the attribute "tier", and possibly a key "_id".
PlainDocs == {[tier |-> v] : v \in Vals}
IdDocs == {[tier |-> v, _id |-> i] : v \in Vals, i \in Ids}
\* Documents for insert/upsert: plain ones, and ones that carry an "_id" key
\* (such as a document that find_document returned for the first row).
CallerDocs == PlainDocs \cup {[tier |-> v, _id |-> 1] : v \in Vals}
\* Documents for bulk_upsert: without an _id (new) or with an explicit one.
BulkDocs == PlainDocs \cup IdDocs

\* find_document's None.
NoDoc == [missing |-> TRUE]

(***************************************************************************)
(* Document store (SQLerDB).  d is the table state [rows, seq].            *)
(***************************************************************************)
MaxRowId(rs) == IF rs = {} THEN 0 ELSE CHOOSE i \in {r._id : r \in rs} :
                                          \A r \in rs : r._id <= i

\* A mutant of NextRowId: INTEGER PRIMARY KEY without AUTOINCREMENT.
NextRowId_noauto(d) == MaxRowId(d.rows) + 1

\* _id INTEGER PRIMARY KEY AUTOINCREMENT: one more than the largest id ever used.
NextRowId(d) == Max(d.seq, MaxRowId(d.rows)) + 1

\* INSERT INTO t (_id, data) VALUES (id, json(text)); new rows get _version 0
\* where the column exists.
InsertRow(d, id, text) ==
    [rows |-> d.rows \cup {[_id |-> id, data |-> text, _version |-> 0]},
     seq |-> Max(d.seq, id)]

\* UPDATE t SET data = json(text) WHERE _id = id
UpdateData(d, id, text) ==
    [d EXCEPT !.rows = {IF r._id = id THEN [r EXCEPT !.data = text] ELSE r
                        : r \in d.rows}]

insert_document(d, doc) ==
    LET id == NextRowId(d)
    IN  [db |-> InsertRow(d, id, json_dumps(doc)), ret |-> id]

\* A mutant of upsert_document: the id is ignored and a row is always inserted.
upsert_document_insert(d, id, doc) == insert_document(d, doc)

upsert_document(d, id, doc) ==
    IF id = NoId
    THEN insert_document(d, doc)
    ELSE [db |-> UpdateData(d, id, json_dumps(doc)), ret |-> id]

\* A mutant of find_document: the row id is not re-attached to the payload.
find_document_noattach(d, id) ==
    IF \E r \in d.rows : r._id = id
    THEN json_loads((CHOOSE r \in d.rows : r._id = id).data)
    ELSE NoDoc

find_document(d, id) ==
    IF \E r \in d.rows : r._id = id
    THEN LET row == CHOOSE r \in d.rows : r._id = id
             obj == json_loads(row.data)
         IN  [k \in DOMAIN obj \cup {"_id"} |->
                 IF k = "_id" THEN row._id ELSE obj[k]]
    ELSE NoDoc

delete_document(d, id) ==
    [d EXCEPT !.rows = {r \in d.rows : r._id # id}]

\* bulk_upsert's statement, run by executemany over the parameter rows:
\* INSERT ... VALUES (?, json(?)) ON CONFLICT(_id) DO UPDATE SET data = excluded.data
RECURSIVE executemany_upsert(_, _)
executemany_upsert(d, params) ==
    IF params = <<>> THEN d
    ELSE LET p == Head(params)
             id == IF p[1] = NoId THEN NextRowId(d) ELSE p[1]
             d2 == IF \E r \in d.rows : r._id = id
                   THEN UpdateData(d, id, p[2])
                   ELSE InsertRow(d, id, p[2])
         IN  executemany_upsert(d2, Tail(params))

DocId(doc) == IF "_id" \in DOMAIN doc THEN doc["_id"] ELSE NoId
WithoutId(doc) == [k \in DOMAIN doc \ {"_id"} |-> doc[k]]

\* The number of docs without an _id among the first n docs.
RECURSIVE NewBefore(_, _)
NewBefore(docs, n) ==
    IF n = 0 THEN 0
    ELSE NewBefore(docs, n - 1) + (IF DocId(docs[n]) = NoId THEN 1 ELSE 0)

bulk_upsert(d, docs) ==
    LET params == [n \in 1..Len(docs) |->
                      <<DocId(docs[n]), json_dumps(WithoutId(docs[n]))>>]
        new_docs == NewBefore(docs, Len(docs))
        max_id_before == MaxRowId(d.rows)
        d2 == executemany_upsert(d, params)
        max_id_after == MaxRowId(d2.rows)
        ids == [n \in 1..Len(docs) |->
                   IF DocId(docs[n]) = NoId
                   THEN max_id_before + NewBefore(docs, n)
                   ELSE DocId(docs[n])]
    IN  IF new_docs > 0 /\ max_id_after - max_id_before # new_docs
        THEN [db |-> d2, ret |-> <<>>, err |-> "AssertionError"]
        ELSE [db |-> d2, ret |-> ids, err |-> "none"]

(***************************************************************************)
(* Record layer (SQLerModel; AsyncSQLerModel is the same protocol with     *)
(* awaits).  A record type with one attribute, tier.                       *)
(***************************************************************************)
\* _dump_with_relations / model_dump(exclude={"_id"}): the attributes, no _id.
model_dump(i) == [tier |-> i.tier]

DB == [rows |-> rows, seq |-> seq]

NoOp == [op |-> "none", c |-> 0, id |-> NoId, doc |-> NoDoc, err |-> "none"]

(***************************************************************************)
(* Calls on the document store handle.                                     *)
(***************************************************************************)
Issue(cnt, ids) == [i \in Ids |-> cnt[i] + (IF i \in ids THEN 1 ELSE 0)]

SetDB(d) == rows' = d.rows /\ seq' = d.seq

DbInsert(doc) ==
    \E r \in {insert_document(DB, doc)} :
        /\ r.ret <= MaxId
        /\ SetDB(r.db)
        /\ lastOp' = [op |-> "insert_document", c |-> 0, id |-> r.ret,
                      doc |-> doc, err |-> "none"]
        /\ issueCount' = Issue(issueCount, {r.ret})
        /\ UNCHANGED <<extVars, adapterVars, inst, boundIds, safeVars>>

DbUpsert(id, doc) ==
    \E r \in {upsert_document(DB, id, doc)} :
        /\ r.ret <= MaxId
        /\ SetDB(r.db)
        /\ lastOp' = [op |-> "upsert_document", c |-> 0, id |-> r.ret,
                      doc |-> doc, err |-> "none"]
        /\ issueCount' = Issue(issueCount, IF id = NoId THEN {r.ret} ELSE {})
        /\ UNCHANGED <<extVars, adapterVars, inst, boundIds, safeVars>>

\* The ids bulk_upsert returns for docs that came without one.
BulkNewIds(docs, ret) ==
    {ret[n] : n \in {m \in 1..Len(ret) : DocId(docs[m]) = NoId}}

DbBulkUpsert(docs) ==
    \E r \in {bulk_upsert(DB, docs)} :
        /\ r.db.seq <= MaxId
        /\ SetDB(r.db)
        /\ lastOp' = [op |-> "bulk_upsert", c |-> 0, id |-> NoId,
                      doc |-> NoDoc, err |-> r.err]
        /\ issueCount' = Issue(issueCount, BulkNewIds(docs, r.ret))
        /\ UNCHANGED <<extVars, adapterVars, inst, boundIds, safeVars>>

DbDelete(id) ==
    /\ SetDB(delete_document(DB, id))
    /\ lastOp' = [op |-> "delete_document", c |-> 0, id |-> id,
                  doc |-> NoDoc, err |-> "none"]
    /\ UNCHANGED <<extVars, adapterVars, inst, issueCount, boundIds, safeVars>>

Batches == UNION {[1..n -> BulkDocs] : n \in 0..MaxBatch}

NewInstance == [_id |-> NoId, tier |-> 1]

IdleCall == [pc |-> "idle", id |-> NoId, payload |-> NoDoc, expected |-> 0,
             ret_id |-> NoId, ret_version |-> 0, err |-> "none"]

IdleThread == [pc |-> "idle", op |-> "none", res |-> "none", scope |-> FALSE,
               issued |-> FALSE, cur |-> 0]

EmptyTable == [rows |-> {}, seq |-> 0]

NoInst == [missing |-> TRUE]

\* No record with references is in use.
InitRelIdle ==
    /\ ctab = EmptyTable
    /\ ptab = EmptyTable
    /\ cin = NoInst
    /\ pin = NoInst
    /\ relOp = [op |-> "none", id |-> 0, emb |-> "none", err |-> "none"]

\* No bulk_upsert is running.
IdleBulk == [pc |-> "idle", docs |-> <<>>, max_id_before |-> 0, max_id_after |-> 0,
             own |-> <<>>, foreign |-> 0, ret |-> <<>>, err |-> "none"]

InitBulkIdle == bulk = IdleBulk

\* No load-modify-save round is under way.
IdleRound == [base |-> NoDoc, delta |-> 0, fin |-> "none", attempts |-> 0]

InitRetryIdle ==
    /\ rt = [c \in Callers |-> IdleRound]
    /\ env = [retry_on_stale |-> FALSE, writes |-> 0]

\* A part of the program that a specification does not use.
Unused == [unused |-> TRUE]

InitLateIdle == bind = Unused /\ qs = Unused /\ cn = Unused /\ tx = Unused

InitExtIdle == InitRelIdle /\ InitBulkIdle /\ InitRetryIdle /\ InitLateIdle

\* SQLerDB.__init__ has connected the adapter; no thread is inside it.
InitConnected ==
    /\ conn = 1
    /\ nConn = 1
    /\ lockOwner = 0
    /\ committed = {}
    /\ pending = {}
    /\ th = [t \in Callers |-> IdleThread]
    /\ nClose = 0

\* No versioned record is in use.
InitSafeIdle ==
    /\ kind = "sync"
    /\ call = [c \in Callers |-> IdleCall]
    /\ won = [i \in Ids |-> [v \in Versions |-> 0]]
    /\ recov = [c \in Callers |-> "none"]
    /\ intervened = [c \in Callers |-> FALSE]

\* An empty table and fresh, unsaved records.
InitEmptyTable ==
    /\ rows = {}
    /\ seq = 0
    /\ inst = [c \in Callers |-> NewInstance]
    /\ lastOp = NoOp
    /\ issueCount = [i \in Ids |-> 0]
    /\ boundIds = [c \in Callers |-> {}]

InitStore ==
    /\ InitExtIdle
    /\ InitConnected
    /\ InitSafeIdle
    /\ InitEmptyTable

NextStore ==
    \/ \E doc \in CallerDocs : DbInsert(doc)
    \/ \E id \in Ids \cup {NoId}, doc \in CallerDocs : DbUpsert(id, doc)
    \/ \E docs \in Batches : DbBulkUpsert(docs)
    \/ \E id \in Ids : DbDelete(id)

\* The document store under arbitrary calls of one application thread.
SpecStore == InitStore /\ [][NextStore]_vars

(***************************************************************************)
(* Claims about the document store.                                        *)
(***************************************************************************)
\* C5 (ID stability): right after insert_document(table, doc) returned id i,
\* find_document(table, i) is a document whose _id is i and whose other keys
\* and values are those of doc.
IDStability ==
    (lastOp.op = "insert_document" /\ lastOp.err = "none") =>
        find_document(DB, lastOp.id) =
            [k \in DOMAIN lastOp.doc \cup {"_id"} |->
                IF k = "_id" THEN lastOp.id ELSE lastOp.doc[k]]

\* An insert has returned, of a document that itself carried an "_id" key with
\* another value than the id of the new row.
IDStabilityWitness ==
    /\ lastOp.op = "insert_document"
    /\ "_id" \in DOMAIN lastOp.doc
    /\ lastOp.doc["_id"] # lastOp.id

\* C6: the rows of the table have pairwise distinct ids, and no id value is
\* handed out by the table (returned as the id of a new row by insert_document,
\* by upsert_document without id, or by bulk_upsert for a doc without id) more
\* than once, also after the row that held it was deleted.
UniqueIdsNeverReissued ==
    /\ \A r1, r2 \in rows : r1._id = r2._id => r1 = r2
    /\ \A i \in Ids : issueCount[i] <= 1

\* An id was handed out, its row is gone, and a later insert got a larger id.
UniqueIdsWitness ==
    \E i, j \in Ids :
        /\ i < j
        /\ issueCount[i] = 1 /\ issueCount[j] = 1
        /\ ~ \E r \in rows : r._id = i
        /\ \E r \in rows : r._id = j

(***************************************************************************)
(* Record layer: SQLerModel.save / delete / refresh / from_id.             *)
(***************************************************************************)
\* model_validate: the declared attributes of the document; extra keys ignored.
model_validate(doc) == [tier |-> doc.tier]

SQLerModel_save(d, i) ==
    LET r == upsert_document(d, i._id, model_dump(i))
    IN  [db |-> r.db, inst |-> [i EXCEPT !._id = r.ret], err |-> "none"]

SQLerModel_delete(d, i) ==
    IF i._id = NoId
    THEN [db |-> d, inst |-> i, err |-> "ValueError"]
    ELSE [db |-> delete_document(d, i._id),
          inst |-> [i EXCEPT !._id = NoId], err |-> "none"]

SQLerModel_refresh(d, i) ==
    IF i._id = NoId
    THEN [db |-> d, inst |-> i, err |-> "ValueError"]
    ELSE LET doc == find_document(d, i._id)
         IN  IF doc = NoDoc
             THEN [db |-> d, inst |-> i, err |-> "LookupError"]
             ELSE [db |-> d,
                   inst |-> [i EXCEPT !.tier = model_validate(doc).tier,
                                      !._id = doc._id],
                   err |-> "none"]

\* from_id returns a new instance, or None (err "None") when there is no row.
SQLerModel_from_id(d, id) ==
    LET doc == find_document(d, id)
    IN  IF doc = NoDoc
        THEN [inst |-> NewInstance, err |-> "None"]
        ELSE [inst |-> [_id |-> doc._id, tier |-> model_validate(doc).tier],
              err |-> "none"]

Bind(c, i) == IF i._id = NoId THEN boundIds[c] ELSE boundIds[c] \cup {i._id}

\* Caller c runs method m of the instance it holds.
Call(c, name, r) ==
    /\ r.db.seq <= MaxId
    /\ SetDB(r.db)
    /\ inst' = [inst EXCEPT ![c] = r.inst]
    /\ boundIds' = [boundIds EXCEPT ![c] = Bind(c, r.inst)]
    /\ lastOp' = [op |-> name, c |-> c, id |-> inst[c]._id, doc |-> NoDoc,
                  err |-> r.err]
    /\ UNCHANGED <<extVars, adapterVars, issueCount, safeVars>>

Save(c) == \E r \in {SQLerModel_save(DB, inst[c])} : Call(c, "save", r)

Delete(c) == \E r \in {SQLerModel_delete(DB, inst[c])} : Call(c, "delete", r)

Refresh(c) == \E r \in {SQLerModel_refresh(DB, inst[c])} : Call(c, "refresh", r)

\* The application assigns an attribute of the instance.
SetAttr(c, v) ==
    /\ inst[c].tier # v
    /\ inst' = [inst EXCEPT ![c].tier = v]
    /\ lastOp' = [op |-> "setattr", c |-> c, id |-> inst[c]._id, doc |-> NoDoc,
                  err |-> "none"]
    /\ UNCHANGED <<extVars, adapterVars, rows, seq, issueCount, boundIds, safeVars>>

\* Caller c drops its instance and holds the one from_id(id) returns.
Load(c, id) ==
    \E r \in {SQLerModel_from_id(DB, id)} :
        /\ r.err = "none"
        /\ inst' = [inst EXCEPT ![c] = r.inst]
        /\ boundIds' = [boundIds EXCEPT ![c] = {id}]
        /\ lastOp' = [op |-> "from_id", c |-> c, id |-> id, doc |-> NoDoc,
                      err |-> r.err]
        /\ UNCHANGED <<extVars, adapterVars, rows, seq, issueCount, safeVars>>

NextModel ==
    \/ \E c \in Callers : Save(c)
    \/ \E c \in Callers : Delete(c)
    \/ \E c \in Callers : Refresh(c)
    \/ \E c \in Callers, v \in Vals : SetAttr(c, v)
    \/ \E c \in Callers, id \in Ids : Load(c, id)

\* Record instances of one bound type, used by sequential callers.
SpecModel == InitStore /\ [][NextModel]_vars

\* C7 as stated: an instance is bound to at most one id value over its life.
IdAssignedOnce == \A c \in Callers : Cardinality(boundIds[c]) <= 1

\* C7, amended: the id is absent until a save binds it; save and refresh never
\* change a bound id; only delete clears it; and a save of an instance without
\* id binds an id the table never used before.
IdBinding ==
    [][\A c \in Callers :
        (inst'[c]._id # inst[c]._id /\ lastOp'.op # "from_id") =>
            /\ lastOp'.c = c
            /\ \/ /\ lastOp'.op = "save"
                  /\ inst[c]._id = NoId
                  /\ inst'[c]._id > seq
                  /\ inst'[c]._id \notin boundIds[c]
               \/ /\ lastOp'.op = "delete"
                  /\ inst'[c]._id = NoId]_vars

\* An instance that was saved, deleted and saved again holds its second id.
IdBindingWitness ==
    \E c \in Callers : Cardinality(boundIds[c]) = 2 /\ inst[c]._id # NoId

(***************************************************************************)
(* Versioned store: the table has the column _version INTEGER NOT NULL     *)
(* DEFAULT 0.                                                              *)
(***************************************************************************)
find_document_with_version(d, id) ==
    IF \E r \in d.rows : r._id = id
    THEN LET row == CHOOSE r \in d.rows : r._id = id
             obj == json_loads(row.data)
         IN  [k \in DOMAIN obj \cup {"_id", "_version"} |->
                 IF k = "_id" THEN row._id
                 ELSE IF k = "_version" THEN row._version
                 ELSE obj[k]]
    ELSE NoDoc

\* A new row is inserted at version 0.  For an existing id:
\* UPDATE t SET data = json(?), _version = _version + 1 WHERE _id = ? AND _version = ?
\* and rowcount = 0 raises the stale-version RuntimeError.
upsert_with_version(d, id, doc, expected) ==
    IF id = NoId
    THEN LET nid == NextRowId(d)
         IN  [db |-> InsertRow(d, nid, json_dumps(doc)),
              ret_id |-> nid, ret_version |-> 0, err |-> "none"]
    ELSE IF \E r \in d.rows : r._id = id /\ r._version = expected
         THEN [db |-> [d EXCEPT !.rows =
                         {IF r._id = id
                          THEN [r EXCEPT !.data = json_dumps(doc),
                                         !._version = @ + 1]
                          ELSE r : r \in d.rows}],
               ret_id |-> id, ret_version |-> expected + 1, err |-> "none"]
         ELSE [db |-> d, ret_id |-> NoId, ret_version |-> 0,
               err |-> "RuntimeError"]

(***************************************************************************)
(* Versioned records.  SQLerSafeModel defines set_db, from_id and query;   *)
(* its save, refresh and delete are the ones it inherits from SQLerModel.  *)
(* AsyncSQLerSafeModel defines from_id, save and refresh and inherits      *)
(* delete from AsyncSQLerModel.                                            *)
(***************************************************************************)
NewSafeInstance == [_id |-> NoId, tier |-> 1, _version |-> 0]

\* SQLerSafeModel.from_id and AsyncSQLerSafeModel.from_id.
SafeModel_from_id(d, id) ==
    LET doc == find_document_with_version(d, id)
    IN  IF doc = NoDoc
        THEN [inst |-> NewSafeInstance, err |-> "None"]
        ELSE [inst |-> [_id |-> doc._id, tier |-> model_validate(doc).tier,
                        _version |-> doc._version],
              err |-> "none"]

\* SQLerModel.save as SQLerSafeModel runs it: upsert_document(table, self._id, payload).
SQLerModel_save_args(i) ==
    [id |-> i._id, payload |-> model_dump(i), expected |-> 0]

SQLerModel_save_stmt(d, a) ==
    LET r == upsert_document(d, a.id, a.payload)
    IN  [db |-> r.db, ret_id |-> r.ret, ret_version |-> 0, err |-> "none"]

SQLerModel_save_ret(i, r) == [inst |-> [i EXCEPT !._id = r.ret_id], err |-> "none"]

\* A mutant of AsyncSafe_save_args: the expected version is not taken from the instance.
AsyncSafe_save_args_v0(i) ==
    [id |-> i._id, payload |-> model_dump(i), expected |-> 0]

\* AsyncSQLerSafeModel.save:
\* upsert_with_version(table, self._id, payload, self._version)
AsyncSafe_save_args(i) ==
    [id |-> i._id, payload |-> model_dump(i), expected |-> i._version]

AsyncSafe_save_stmt(d, a) == upsert_with_version(d, a.id, a.payload, a.expected)

AsyncSafe_save_ret(i, r) ==
    IF r.err = "RuntimeError"
    THEN [inst |-> i, err |-> "StaleVersionError"]
    ELSE [inst |-> [i EXCEPT !._id = r.ret_id, !._version = r.ret_version],
          err |-> "none"]

\* AsyncSQLerModel.refresh, which does not read the version.
AsyncSQLerModel_refresh(d, i) == SQLerModel_refresh(d, i)

\* AsyncSQLerSafeModel.refresh
AsyncSafe_refresh(d, i) ==
    IF i._id = NoId
    THEN [db |-> d, inst |-> i, err |-> "ValueError"]
    ELSE LET doc == find_document_with_version(d, i._id)
         IN  IF doc = NoDoc
             THEN [db |-> d, inst |-> i, err |-> "LookupError"]
             ELSE [db |-> d,
                   inst |-> [i EXCEPT !.tier = model_validate(doc).tier,
                                      !._id = doc._id,
                                      !._version = doc._version],
                   err |-> "none"]

\* Method resolution on the class in use.
Safe_save_args(k, i) ==
    IF k = "sync" THEN SQLerModel_save_args(i) ELSE AsyncSafe_save_args(i)

Safe_save_stmt(k, d, a) ==
    IF k = "sync" THEN SQLerModel_save_stmt(d, a) ELSE AsyncSafe_save_stmt(d, a)

Safe_save_ret(k, i, r) ==
    IF k = "sync" THEN SQLerModel_save_ret(i, r) ELSE AsyncSafe_save_ret(i, r)

Safe_refresh(k, d, i) ==
    IF k = "sync" THEN SQLerModel_refresh(d, i) ELSE AsyncSafe_refresh(d, i)

Safe_delete(k, d, i) == SQLerModel_delete(d, i)

(***************************************************************************)
(* Callers using versioned records concurrently.  A save is three steps:   *)
(* the call (payload and arguments are taken from the instance), the SQL   *)
(* statement, and the return (the instance is updated or the error raised).*)
(***************************************************************************)
Idle(c) == call[c].pc = "idle"

RowExists(d, id) == \E r \in d.rows : r._id = id
Stored(d, id) == CHOOSE r \in d.rows : r._id = id

OthersIntervened(c) == [o \in Callers |-> IF o = c THEN intervened[o] ELSE TRUE]

SafeLoad(c, id) ==
    /\ Idle(c)
    /\ \E r \in {SafeModel_from_id(DB, id)} :
        /\ r.err = "none"
        /\ inst' = [inst EXCEPT ![c] = r.inst]
    /\ recov' = [recov EXCEPT ![c] = "none"]
    /\ UNCHANGED <<extVars, adapterVars, rows, seq, lastOp, issueCount, boundIds, kind, call, won,
                   intervened>>

SafeSetAttr(c, v) ==
    /\ Idle(c)
    /\ inst[c].tier # v
    /\ inst' = [inst EXCEPT ![c].tier = v]
    /\ UNCHANGED <<extVars, adapterVars, rows, seq, lastOp, issueCount, boundIds, safeVars>>

SafeSaveCall(c) ==
    /\ Idle(c)
    /\ \E a \in {Safe_save_args(kind, inst[c])} :
        call' = [call EXCEPT ![c] = [IdleCall EXCEPT !.pc = "called",
                     !.id = a.id, !.payload = a.payload, !.expected = a.expected]]
    /\ UNCHANGED <<extVars, adapterVars, rows, seq, inst, lastOp, issueCount, boundIds, kind, won,
                   recov, intervened>>

Count(n) == IF n < 2 THEN n + 1 ELSE n

SafeSaveStmt(c) ==
    /\ call[c].pc = "called"
    /\ \E r \in {Safe_save_stmt(kind, DB, call[c])} :
        /\ r.db.seq <= MaxId
        /\ \A x \in r.db.rows : x._version <= MaxVersion
        /\ SetDB(r.db)
        /\ call' = [call EXCEPT ![c].pc = "returning", ![c].ret_id = r.ret_id,
                       ![c].ret_version = r.ret_version, ![c].err = r.err]
        /\ won' = IF call[c].id # NoId /\ r.err = "none"
                  THEN [won EXCEPT ![call[c].id][inst[c]._version] = Count(@)]
                  ELSE won
        /\ intervened' = IF r.err # "none"
                         THEN [intervened EXCEPT ![c] = FALSE]
                         ELSE OthersIntervened(c)
    /\ UNCHANGED <<extVars, adapterVars, inst, lastOp, issueCount, boundIds, kind, recov>>

SafeSaveRet(c) ==
    /\ call[c].pc = "returning"
    /\ \E r \in {Safe_save_ret(kind, inst[c], call[c])} :
        /\ inst' = [inst EXCEPT ![c] = r.inst]
        /\ recov' = [recov EXCEPT ![c] =
                        IF r.err = "StaleVersionError" THEN "stale"
                        ELSE IF @ = "refreshed" THEN "recovered"
                        ELSE "none"]
    /\ call' = [call EXCEPT ![c] = IdleCall]
    /\ UNCHANGED <<extVars, adapterVars, rows, seq, lastOp, issueCount, boundIds, kind, won,
                   intervened>>

SafeRefresh(c) ==
    /\ Idle(c)
    /\ \E r \in {Safe_refresh(kind, DB, inst[c])} :
        /\ inst' = [inst EXCEPT ![c] = r.inst]
        /\ recov' = [recov EXCEPT ![c] =
                        IF @ = "stale"
                        THEN (IF r.err = "none" THEN "refreshed"
                              ELSE "refresh_failed")
                        ELSE "none"]
    /\ UNCHANGED <<extVars, adapterVars, rows, seq, lastOp, issueCount, boundIds, kind, call, won,
                   intervened>>

SafeDelete(c) ==
    /\ Idle(c)
    /\ \E r \in {Safe_delete(kind, DB, inst[c])} :
        /\ SetDB(r.db)
        /\ inst' = [inst EXCEPT ![c] = r.inst]
        /\ intervened' = IF r.err = "none" THEN OthersIntervened(c)
                         ELSE intervened
    /\ recov' = [recov EXCEPT ![c] = "none"]
    /\ UNCHANGED <<extVars, adapterVars, lastOp, issueCount, boundIds, kind, call, won>>

InitSafe ==
    /\ InitExtIdle
    /\ InitConnected
    /\ kind \in {"sync", "async"}
    /\ rows = {}
    /\ seq = 0
    /\ inst = [c \in Callers |-> NewSafeInstance]
    /\ lastOp = NoOp
    /\ issueCount = [i \in Ids |-> 0]
    /\ boundIds = [c \in Callers |-> {}]
    /\ call = [c \in Callers |-> IdleCall]
    /\ won = [i \in Ids |-> [v \in Versions |-> 0]]
    /\ recov = [c \in Callers |-> "none"]
    /\ intervened = [c \in Callers |-> FALSE]

NextSafe ==
    \/ \E c \in Callers, id \in Ids : SafeLoad(c, id)
    \/ \E c \in Callers, v \in Vals : SafeSetAttr(c, v)
    \/ \E c \in Callers : SafeSaveCall(c)
    \/ \E c \in Callers : SafeSaveStmt(c)
    \/ \E c \in Callers : SafeSaveRet(c)
    \/ \E c \in Callers : SafeRefresh(c)
    \/ \E c \in Callers : SafeDelete(c)

\* Versioned record instances used by concurrent callers.
SpecSafe == InitSafe /\ [][NextSafe]_vars

(***************************************************************************)
(* Claims about versioned records.                                         *)
(***************************************************************************)
SaveStmtStep(c) == call[c].pc = "called" /\ call'[c].pc = "returning"
SaveRetStep(c) == call[c].pc = "returning" /\ call'[c].pc = "idle"

\* C1 (CAS exclusivity): of the saves made by callers that hold the same row at
\* the same version, at most one succeeds, and a save that fails on a row that
\* exists has lost to exactly one successful save made from that version.
CASExclusivity ==
    /\ \A id \in Ids, v \in Versions : won[id][v] <= 1
    /\ \A c \in Callers :
        (/\ call[c].pc = "returning"
         /\ call[c].id # NoId
         /\ call[c].err # "none"
         /\ RowExists(DB, call[c].id))
            => won[call[c].id][inst[c]._version] = 1

VersionMonotonicity ==
    [][\A c \in Callers :
        /\ (/\ SaveStmtStep(c)
            /\ call'[c].err = "none"
            /\ call[c].id # NoId
            /\ RowExists(DB, call[c].id))
              => /\ RowExists(DB', call[c].id)
                 /\ Stored(DB', call[c].id)._version =
                        Stored(DB, call[c].id)._version + 1
        /\ (SaveRetStep(c) /\ call[c].err = "none" /\ call[c].id # NoId)
              => inst'[c]._version = inst[c]._version + 1
      ]_vars

\* C4 as stated: a save that raises StaleVersionError wrote nothing and left
\* the instance as it was, and unless another writer intervenes afterwards the
\* refresh that follows succeeds and so does the save after it.
StaleSaveRecovers ==
    [][\A c \in Callers :
        /\ (SaveStmtStep(c) /\ call'[c].err # "none") => rows' = rows
        /\ (SaveRetStep(c) /\ call[c].err # "none") => inst'[c] = inst[c]
        /\ (recov[c] = "stale" /\ ~ intervened[c])
              => recov'[c] # "refresh_failed"
        /\ (recov[c] = "refreshed" /\ ~ intervened[c] /\ SaveStmtStep(c))
              => call'[c].err = "none"
      ]_vars

\* C4, amended: the refresh succeeds if the row still exists (and raises the
\* not-found error if the row was deleted).
StaleSaveRecoversIfRowExists ==
    [][\A c \in Callers :
        /\ (SaveStmtStep(c) /\ call'[c].err # "none") => rows' = rows
        /\ (SaveRetStep(c) /\ call[c].err # "none") => inst'[c] = inst[c]
        /\ (recov[c] = "stale" /\ ~ intervened[c] /\ RowExists(DB, inst[c]._id))
              => recov'[c] # "refresh_failed"
        /\ (recov[c] = "stale" /\ recov'[c] = "refreshed")
              => RowExists(DB, inst[c]._id)
        /\ (recov[c] = "refreshed" /\ ~ intervened[c] /\ SaveStmtStep(c))
              => call'[c].err = "none"
      ]_vars

\* A caller's save raised StaleVersionError, it refreshed, and its second save
\* succeeded.
StaleSaveRecoversWitness == \E c \in Callers : recov[c] = "recovered"


\* ---------------------------------------------------------------------------
\* SQLiteAdapter and _LockedCursor (adapter/synchronous.py).  The threads are
\* the callers; thread t's only write is the token t, which it issues while
\* the token is not visible.
\* ---------------------------------------------------------------------------

Guarded == {"execute", "executemany", "executescript", "commit"}

NotConnected_commit(op, c) == c = 0 /\ op # "commit"

\* "if not self.connection" at the head of an operation.
NotConnected(op, c) == c = 0

\* What a read through the adapter's connection sees.
Visible == committed \cup pending

\* Thread t is inside an operation on the connection or on a cursor.
Inside(t) == th[t].pc \in {"locked", "connecting", "attr"}

Start(t, op, pc) == [th EXCEPT ![t] = [@ EXCEPT !.pc = pc, !.op = op, !.res = "running"]]

Done(t, op, res) == [th EXCEPT ![t] = [@ EXCEPT !.pc = "idle", !.op = op, !.res = res]]

\* connect, lines 20-26: a new connection replaces self.connection; no lock
\* is taken.  The new connection has no open transaction.
ConnectBegin(t, op) ==
    /\ nConn < MaxConnects
    /\ conn' = nConn + 1
    /\ nConn' = nConn + 1
    /\ pending' = {}
    /\ th' = Start(t, op, "connecting")
    /\ UNCHANGED <<lockOwner, committed, nClose>>

Connect(t) ==
    /\ th[t].pc = "idle"
    /\ ConnectBegin(t, "connect")
    /\ UNCHANGED <<storeVars, safeVars, extVars>>

\* connect, lines 28-34: the pragmas and the commit run on whatever
\* self.connection is by then; __enter__ returns after it.
ConnectEnd(t) ==
    /\ th[t].pc = "connecting"
    /\ IF conn = 0
       THEN /\ th' = Done(t, th[t].op, "AttributeError")
            /\ UNCHANGED <<committed, pending>>
       ELSE /\ committed' = committed \cup pending
            /\ pending' = {}
            /\ th' = [th EXCEPT ![t] = [@ EXCEPT !.pc = "idle", !.res = "ok",
                                           !.scope = @ \/ th[t].op = "enter",
                                           !.issued = @ /\ th[t].op # "enter"]]
    /\ UNCHANGED <<conn, nConn, lockOwner, nClose>>
    /\ UNCHANGED <<storeVars, safeVars, extVars>>

\* execute, executemany, executescript, commit: the connection test, made
\* before the lock is requested.
Invoke(t, op) ==
    /\ th[t].pc = "idle"
    /\ th' = IF NotConnected(op, conn) THEN Done(t, op, "NotConnectedError")
                                       ELSE Start(t, op, "wait")
    /\ UNCHANGED <<conn, nConn, lockOwner, committed, pending, nClose>>
    /\ UNCHANGED <<storeVars, safeVars, extVars>>

\* close, line 37: nothing to do when there is no connection.
Close(t) ==
    /\ th[t].pc = "idle"
    /\ th' = IF conn = 0 THEN Done(t, "close", "none") ELSE Start(t, "close", "wait")
    /\ nClose' = Count(nClose)
    /\ UNCHANGED <<conn, nConn, lockOwner, committed, pending>>
    /\ UNCHANGED <<storeVars, safeVars, extVars>>

\* __enter__: connects when there is no connection.
Enter(t) ==
    /\ th[t].pc = "idle"
    /\ ~th[t].scope
    /\ IF conn = 0
       THEN ConnectBegin(t, "enter")
       ELSE /\ th' = [th EXCEPT ![t] = [@ EXCEPT !.op = "enter", !.res = "ok",
                                           !.scope = TRUE, !.issued = FALSE]]
            /\ UNCHANGED <<conn, nConn, lockOwner, committed, pending, nClose>>
    /\ UNCHANGED <<storeVars, safeVars, extVars>>

\* __exit__, lines 92-93: how is "exit_ok" without an exception, "exit_err"
\* with one.
Exit(t, how) ==
    /\ th[t].pc = "idle"
    /\ th[t].scope
    /\ th' = IF conn = 0
             THEN [th EXCEPT ![t] = [@ EXCEPT !.op = how, !.res = "none",
                                        !.scope = FALSE, !.issued = FALSE]]
             ELSE Start(t, how, "wait")
    /\ UNCHANGED <<conn, nConn, lockOwner, committed, pending, nClose>>
    /\ UNCHANGED <<storeVars, safeVars, extVars>>

\* "with self._lock": the lock is reentrant.
Acquire(t) ==
    /\ th[t].pc = "wait"
    /\ lockOwner \in {0, t}
    /\ lockOwner' = t
    /\ th' = [th EXCEPT ![t] = [@ EXCEPT !.pc = "locked"]]
    /\ UNCHANGED <<conn, nConn, committed, pending, nClose>>
    /\ UNCHANGED <<storeVars, safeVars, extVars>>

\* The body of an operation that found the connection gone after its test.
Gone(t) ==
    /\ conn = 0
    /\ th' = Done(t, th[t].op, "AttributeError")
    /\ UNCHANGED <<committed, pending>>

\* execute, lines 47-55: a read, or a write that stays in the transaction.
ExecuteBody(t) ==
    /\ th[t].pc = "locked"
    /\ th[t].op = "execute"
    /\ \/ Gone(t)
       \/ /\ conn # 0
          /\ \E write \in BOOLEAN :
                /\ write => t \notin Visible
                /\ pending' = IF write THEN pending \cup {t} ELSE pending
                /\ th' = [th EXCEPT ![t] = [@ EXCEPT !.pc = "idle", !.res = "ok",
                                               !.cur = conn,
                                               !.issued = @ \/ (write /\ th[t].scope)]]
          /\ UNCHANGED committed
    /\ lockOwner' = 0
    /\ UNCHANGED <<conn, nConn, nClose>>
    /\ UNCHANGED <<storeVars, safeVars, extVars>>


\* executemany, lines 62-65, and executescript, lines 72-75: the statement
\* runs and the connection commits at once.
CommittingBody(t, op) ==
    /\ th[t].pc = "locked"
    /\ th[t].op = op
    /\ \/ Gone(t)
       \/ /\ conn # 0
          /\ \E write \in BOOLEAN :
                /\ write => t \notin Visible
                /\ committed' = committed \cup pending \cup (IF write THEN {t} ELSE {})
                /\ th' = [th EXCEPT ![t] = [@ EXCEPT !.pc = "idle", !.res = "ok",
                                               !.cur = conn,
                                               !.issued = @ \/ (write /\ th[t].scope)]]
          /\ pending' = {}
    /\ lockOwner' = 0
    /\ UNCHANGED <<conn, nConn, nClose>>
    /\ UNCHANGED <<storeVars, safeVars, extVars>>

\* commit, line 82.
CommitBody(t) ==
    /\ th[t].pc = "locked"
    /\ th[t].op = "commit"
    /\ \/ Gone(t)
       \/ /\ conn # 0
          /\ committed' = committed \cup pending
          /\ pending' = {}
          /\ th' = Done(t, "commit", "ok")
    /\ lockOwner' = 0
    /\ UNCHANGED <<conn, nConn, nClose>>
    /\ UNCHANGED <<storeVars, safeVars, extVars>>

\* close, lines 39-40: closing a connection discards its open transaction.
CloseBody(t) ==
    /\ th[t].pc = "locked"
    /\ th[t].op = "close"
    /\ \/ /\ Gone(t)
          /\ UNCHANGED conn
       \/ /\ conn # 0
          /\ conn' = 0
          /\ pending' = {}
          /\ th' = Done(t, "close", "ok")
          /\ UNCHANGED committed
    /\ lockOwner' = 0
    /\ UNCHANGED <<nConn, nClose>>
    /\ UNCHANGED <<storeVars, safeVars, extVars>>

\* __exit__, lines 94-98: commit without an exception, rollback with one.
ExitBody(t) ==
    /\ th[t].pc = "locked"
    /\ th[t].op \in {"exit_ok", "exit_err"}
    /\ IF conn = 0
       THEN /\ th' = [th EXCEPT ![t] = [@ EXCEPT !.pc = "idle", !.res = "AttributeError",
                                           !.scope = FALSE, !.issued = FALSE]]
            /\ UNCHANGED <<committed, pending>>
       ELSE /\ committed' = IF th[t].op = "exit_ok" THEN committed \cup pending
                                                    ELSE committed
            /\ pending' = {}
            /\ th' = [th EXCEPT ![t] = [@ EXCEPT !.pc = "idle", !.res = "ok",
                                           !.scope = FALSE, !.issued = FALSE]]
    /\ lockOwner' = 0
    /\ UNCHANGED <<conn, nConn, nClose>>
    /\ UNCHANGED <<storeVars, safeVars, extVars>>

\* _LockedCursor.fetchone, fetchall, fetchmany, rowcount, lastrowid, __iter__:
\* the read requests the lock.
CursorRead(t) ==
    /\ th[t].pc = "idle"
    /\ th[t].cur # 0
    /\ th' = Start(t, "fetch", "wait")
    /\ UNCHANGED <<conn, nConn, lockOwner, committed, pending, nClose>>
    /\ UNCHANGED <<storeVars, safeVars, extVars>>

\* A mutant of CursorReadBody: the lock is taken and released by hand, and
\* the release is skipped when the read raises.
CursorReadBody_no_finally(t) ==
    /\ th[t].pc = "locked"
    /\ th[t].op = "fetch"
    /\ \E res \in IF th[t].cur = conn THEN {"ok"} ELSE {"ok", "ProgrammingError"} :
          /\ th' = Done(t, "fetch", res)
          /\ lockOwner' = IF res = "ok" THEN 0 ELSE lockOwner
    /\ UNCHANGED <<conn, nConn, committed, pending, nClose>>
    /\ UNCHANGED <<storeVars, safeVars, extVars>>

\* The read under the lock.  A cursor of a connection that is no longer the
\* adapter's fails when that connection was closed and still reads when it
\* was replaced by a second connect.
CursorReadBody(t) ==
    /\ th[t].pc = "locked"
    /\ th[t].op = "fetch"
    /\ \E res \in IF th[t].cur = conn THEN {"ok"} ELSE {"ok", "ProgrammingError"} :
          th' = Done(t, "fetch", res)
    /\ lockOwner' = 0
    /\ UNCHANGED <<conn, nConn, committed, pending, nClose>>
    /\ UNCHANGED <<storeVars, safeVars, extVars>>

\* _LockedCursor.__getattr__, lines 173-175: any other attribute is read from
\* the cursor without the lock.
CursorAttr(t) ==
    /\ th[t].pc = "idle"
    /\ th[t].cur # 0
    /\ th' = Start(t, "getattr", "attr")
    /\ UNCHANGED <<conn, nConn, lockOwner, committed, pending, nClose>>
    /\ UNCHANGED <<storeVars, safeVars, extVars>>

CursorAttrEnd(t) ==
    /\ th[t].pc = "attr"
    /\ th' = Done(t, "getattr", "ok")
    /\ UNCHANGED <<conn, nConn, lockOwner, committed, pending, nClose>>
    /\ UNCHANGED <<storeVars, safeVars, extVars>>

\* SQLiteAdapter.__init__: no connection, a free lock, an empty database.
InitAdapter ==
    /\ conn = 0
    /\ nConn = 0
    /\ lockOwner = 0
    /\ committed = {}
    /\ pending = {}
    /\ th = [t \in Callers |-> IdleThread]
    /\ nClose = 0
    /\ InitSafeIdle
    /\ InitEmptyTable
    /\ InitExtIdle

NextAdapter ==
    \/ \E t \in Callers : Connect(t)
    \/ \E t \in Callers : ConnectEnd(t)
    \/ \E t \in Callers, op \in Guarded : Invoke(t, op)
    \/ \E t \in Callers : Close(t)
    \/ \E t \in Callers : Enter(t)
    \/ \E t \in Callers, how \in {"exit_ok", "exit_err"} : Exit(t, how)
    \/ \E t \in Callers : Acquire(t)
    \/ \E t \in Callers : ExecuteBody(t)
    \/ \E t \in Callers, op \in {"executemany", "executescript"} : CommittingBody(t, op)
    \/ \E t \in Callers : CommitBody(t)
    \/ \E t \in Callers : CloseBody(t)
    \/ \E t \in Callers : ExitBody(t)
    \/ \E t \in Callers : CursorRead(t)
    \/ \E t \in Callers : CursorReadBody(t)
    \/ \E t \in Callers : CursorAttr(t)
    \/ \E t \in Callers : CursorAttrEnd(t)

SpecAdapter == InitAdapter /\ [][NextAdapter]_vars

\* C8: when a scope exits with an exception, no write the thread issued
\* inside it is visible afterwards; when it exits normally, every write the
\* thread issued inside it is committed.
ScopedCommitRollback ==
    [][\A t \in Callers :
         (th[t].pc = "locked" /\ th[t].issued /\ th'[t].pc = "idle")
         => /\ th[t].op = "exit_err" => t \notin Visible'
            /\ th[t].op = "exit_ok" => t \in committed']_vars

\* C9: a thread inside an operation on the connection or on a cursor holds
\* the lock, so at most one thread is inside at a time.
MutexGuardsConnection ==
    /\ \A t \in Callers : Inside(t) => lockOwner = t
    /\ Cardinality({t \in Callers : Inside(t)}) <= 1

\* C10: execute, executemany, executescript and commit invoked while there is
\* no connection raise NotConnectedError at once and leave the database as it
\* was; close invoked while there is no connection returns and changes nothing.
NotConnectedRaises ==
    [][\A t \in Callers :
         (conn = 0 /\ th[t].pc = "idle" /\ th'[t] # th[t])
         => /\ th'[t].op \in Guarded
                => /\ th'[t].pc = "idle"
                   /\ th'[t].res = "NotConnectedError"
                   /\ UNCHANGED <<conn, nConn, lockOwner, committed, pending>>
            /\ th'[t].op = "close"
                => /\ th'[t].pc = "idle"
                   /\ th'[t].res = "none"
                   /\ UNCHANGED <<conn, nConn, lockOwner, committed, pending>>]_vars

\* connect and close were each called twice and a later operation raised
\* NotConnectedError on the closed adapter.
NotConnectedRaisesWitness ==
    /\ conn = 0
    /\ nConn >= 2
    /\ nClose >= 2
    /\ \E t \in Callers : th[t].op \in Guarded /\ th[t].res = "NotConnectedError"


(***************************************************************************)
(* References between records (SQLerModel._resolve_relations and           *)
(* _dump_with_relations).  The referenced type Child has the table         *)
(* "children" and one attribute, name; the referring type Parent has the   *)
(* table "parents" and one attribute, link, that holds any value.  Values  *)
(* of a payload tree carry their Python type in the field t.               *)
(***************************************************************************)
NoneV == [t |-> "none"]
IntV(n) == [t |-> "int", v |-> n]
StrV(x) == [t |-> "str", v |-> x]
MapV(m) == [t |-> "map", m |-> m]
ListV(l) == [t |-> "list", l |-> l]
\* A Child instance as a value.
RecV(i) == [t |-> "rec", table |-> "children", inst |-> i]

RefKeys == {"_table", "_id"}

\* A mutant of _is_ref_dict: no dict is a reference.
SQLerModel_is_ref_dict_never(value) == FALSE

\* _is_ref_dict: a dict that has the keys "_table" and "_id".
SQLerModel_is_ref_dict(value) == value.t = "map" /\ RefKeys \subseteq DOMAIN value.m

\* registry.resolve: set_db registered the table "children" for Child.
registry_resolve(table) == IF table = "children" THEN "Child" ELSE "None"

Child_validate(doc) == [name |-> doc.name]

Child_dump(i) == [name |-> i.name]

\* Child.from_id(rid) as _resolve_relations calls it: an id that sqlite cannot
\* bind raises, an id without a row gives None.
Child_from_id(cd, rid) ==
    IF rid.t \in {"map", "list"}
    THEN [val |-> NoneV, err |-> "InterfaceError"]
    ELSE IF rid.t = "int" /\ find_document(cd, rid.v) # NoDoc
         THEN LET doc == find_document(cd, rid.v)
              IN  [val |-> RecV([_id |-> doc._id, name |-> Child_validate(doc).name]),
                   err |-> "none"]
         ELSE [val |-> NoneV, err |-> "none"]

\* decode in _resolve_relations.
RECURSIVE decode(_, _)
decode(cd, value) ==
    IF value.t = "map"
    THEN IF /\ SQLerModel_is_ref_dict(value)
            /\ value.m["_table"].t = "str"
            /\ registry_resolve(value.m["_table"].v) # "None"
         THEN LET r == Child_from_id(cd, value.m["_id"])
              IN  IF r.err = "none" THEN r.val ELSE value
         ELSE MapV([k \in DOMAIN value.m |-> decode(cd, value.m[k])])
    ELSE IF value.t = "list"
         THEN ListV([n \in DOMAIN value.l |-> decode(cd, value.l[n])])
         ELSE value

\* as_ref(record): the pair of the record's table and id.
as_ref(i) == MapV([k \in RefKeys |-> IF k = "_table" THEN StrV("children")
                                                    ELSE IntV(i._id)])

\* Child.save(): SQLerModel.save on the referenced type.
Child_save(cd, i) ==
    LET r == upsert_document(cd, i._id, Child_dump(i))
    IN  [db |-> r.db, inst |-> [i EXCEPT !._id = r.ret]]

\* encode in _dump_with_relations: db is the referenced table after the
\* saves it made, val the encoded value, mem the value as the instance holds
\* it afterwards (an embedded record has its id bound).
RECURSIVE encode(_, _)
RECURSIVE encode_list(_, _)
RECURSIVE encode_items(_, _, _)
encode(cd, value) ==
    IF value.t = "rec"
    THEN LET r == Child_save(cd, value.inst)
         IN  [db |-> r.db, val |-> as_ref(r.inst), mem |-> RecV(r.inst)]
    ELSE IF value.t = "map" /\ RefKeys \subseteq DOMAIN value.m
         THEN [db |-> cd, val |-> MapV([k \in RefKeys |-> value.m[k]]), mem |-> value]
         ELSE IF value.t = "list"
              THEN LET r == encode_list(cd, value.l)
                   IN  [db |-> r.db, val |-> ListV(r.val), mem |-> ListV(r.mem)]
              ELSE IF value.t = "map"
                   THEN LET r == encode_items(cd, value.m, DOMAIN value.m)
                        IN  [db |-> r.db, val |-> MapV(r.val), mem |-> MapV(r.mem)]
                   ELSE [db |-> cd, val |-> value, mem |-> value]

encode_list(cd, l) ==
    IF l = <<>> THEN [db |-> cd, val |-> <<>>, mem |-> <<>>]
    ELSE LET h == encode(cd, Head(l))
             t == encode_list(h.db, Tail(l))
         IN  [db |-> t.db, val |-> <<h.val>> \o t.val, mem |-> <<h.mem>> \o t.mem]

encode_items(cd, m, keys) ==
    IF keys = {} THEN [db |-> cd, val |-> m, mem |-> m]
    ELSE LET k == CHOOSE x \in keys : TRUE
             h == encode(cd, m[k])
             t == encode_items(h.db, m, keys \ {k})
         IN  [db |-> t.db, val |-> [t.val EXCEPT ![k] = h.val],
              mem |-> [t.mem EXCEPT ![k] = h.mem]]


Parent_validate(doc) == [link |-> doc.link]

\* Parent.from_id: find_document, _resolve_relations, model_validate, _id.
Parent_from_id(pd, cd, id) ==
    LET doc == find_document(pd, id)
    IN  IF doc = NoDoc
        THEN [inst |-> NoInst, err |-> "None"]
        ELSE [inst |-> [_id |-> doc._id,
                        link |-> Parent_validate([link |-> decode(cd, doc.link)]).link],
              err |-> "none"]

\* Parent.save: _dump_with_relations, upsert_document, self._id = new_id.
Parent_save(pd, cd, i) ==
    LET e == encode(cd, i.link)
        r == upsert_document(pd, i._id, [link |-> e.val])
    IN  [pdb |-> r.db, cdb |-> e.db, inst |-> [_id |-> r.ret, link |-> e.mem]]

\* The payload trees a caller stores: reference dicts to a registered and to
\* an unregistered table, with an id sqlite can and cannot bind, dicts with a
\* further key or with one of the two keys only, and these inside a list and
\* inside a dict.
RefTables == {"children", "ghosts"}
RefDict(tb, rid) == MapV([k \in RefKeys |-> IF k = "_table" THEN StrV(tb) ELSE rid])
TwoKey == {RefDict(tb, rid) : tb \in RefTables, rid \in {IntV(1), ListV(<<>>)}}
ThreeKey == {MapV([k \in RefKeys \cup {"k"} |->
                     IF k = "_table" THEN StrV(tb)
                     ELSE IF k = "_id" THEN IntV(1) ELSE IntV(2)]) : tb \in RefTables}
OneKey == {MapV([k \in {"_table"} |-> StrV("children")]), MapV([k \in {"_id"} |-> IntV(1)])}
Nested == {ListV(<<m>>) : m \in TwoKey \cup ThreeKey}
            \cup {MapV([k \in {"k"} |-> m]) : m \in TwoKey \cup ThreeKey}
RawLinks == TwoKey \cup ThreeKey \cup OneKey \cup Nested \cup {IntV(1)}

RelDone(op, id, emb, err) == [op |-> op, id |-> id, emb |-> emb, err |-> err]

\* Child(name=n)
ChildNew(n) ==
    /\ cin' = [_id |-> NoId, name |-> n]
    /\ relOp' = RelDone("child", NoId, "none", "none")
    /\ UNCHANGED <<ctab, ptab, pin>>
    /\ UNCHANGED <<storeVars, safeVars, adapterVars, moreVars, lateVars>>

\* Child.from_id(id)
ChildLoad(id) ==
    /\ find_document(ctab, id) # NoDoc
    /\ cin' = [_id |-> id, name |-> Child_validate(find_document(ctab, id)).name]
    /\ relOp' = RelDone("child", NoId, "none", "none")
    /\ UNCHANGED <<ctab, ptab, pin>>
    /\ UNCHANGED <<storeVars, safeVars, adapterVars, moreVars, lateVars>>

\* child.name = n
ChildSetAttr(n) ==
    /\ cin # NoInst
    /\ cin' = [cin EXCEPT !.name = n]
    /\ relOp' = RelDone("child", NoId, "none", "none")
    /\ UNCHANGED <<ctab, ptab, pin>>
    /\ UNCHANGED <<storeVars, safeVars, adapterVars, moreVars, lateVars>>

\* child.save()
ChildSave ==
    /\ cin # NoInst
    /\ \E r \in {Child_save(ctab, cin)} :
          /\ r.db.seq <= MaxId
          /\ ctab' = r.db
          /\ cin' = r.inst
    /\ relOp' = RelDone("child", NoId, "none", "none")
    /\ UNCHANGED <<ptab, pin>>
    /\ UNCHANGED <<storeVars, safeVars, adapterVars, moreVars, lateVars>>

\* child.delete()
ChildDelete ==
    /\ cin # NoInst
    /\ cin._id # NoId
    /\ ctab' = delete_document(ctab, cin._id)
    /\ cin' = [cin EXCEPT !._id = NoId]
    /\ relOp' = RelDone("child", NoId, "none", "none")
    /\ UNCHANGED <<ptab, pin>>
    /\ UNCHANGED <<storeVars, safeVars, adapterVars, moreVars, lateVars>>

\* Parent(link=child): the instance embeds the record the caller holds.
ParentNew ==
    /\ cin # NoInst
    /\ pin' = [_id |-> NoId, link |-> RecV(cin)]
    /\ relOp' = RelDone("new", NoId, "none", "none")
    /\ UNCHANGED <<ctab, ptab, cin>>
    /\ UNCHANGED <<storeVars, safeVars, adapterVars, moreVars, lateVars>>

\* parent.link.name = n
EmbeddedSetAttr(n) ==
    /\ pin # NoInst
    /\ pin.link.t = "rec"
    /\ pin' = [pin EXCEPT !.link = RecV([pin.link.inst EXCEPT !.name = n])]
    /\ relOp' = RelDone("set", NoId, "none", "none")
    /\ UNCHANGED <<ctab, ptab, cin>>
    /\ UNCHANGED <<storeVars, safeVars, adapterVars, moreVars, lateVars>>

\* What the embedded record is when save is called: "none" when the link is
\* not a record, "new" without an id, "saved" when its row exists, "gone"
\* when its row was deleted through another instance.
Embedded(cd, i) ==
    IF i.link.t # "rec" THEN "none"
    ELSE IF i.link.inst._id = NoId THEN "new"
         ELSE IF find_document(cd, i.link.inst._id) # NoDoc THEN "saved" ELSE "gone"

\* parent.save()
ParentSave ==
    /\ pin # NoInst
    /\ \E r \in {Parent_save(ptab, ctab, pin)} :
          /\ r.pdb.seq <= MaxParents
          /\ r.cdb.seq <= MaxId
          /\ ptab' = r.pdb
          /\ ctab' = r.cdb
          /\ pin' = r.inst
          /\ relOp' = RelDone("save", r.inst._id, Embedded(ctab, pin), "none")
    /\ UNCHANGED cin
    /\ UNCHANGED <<storeVars, safeVars, adapterVars, moreVars, lateVars>>

\* Parent.from_id(id); emb tells whether the call follows at once the save of
\* the same row, and with which embedded record.
ParentLoad(id) ==
    /\ \E r \in {Parent_from_id(ptab, ctab, id)} :
          /\ pin' = r.inst
          /\ relOp' = RelDone("from_id", id,
                               IF relOp.op = "save" /\ relOp.id = id THEN relOp.emb
                                                                     ELSE "none",
                               r.err)
    /\ UNCHANGED <<ctab, ptab, cin>>
    /\ UNCHANGED <<storeVars, safeVars, adapterVars, moreVars, lateVars>>

\* db.insert_document("parents", {"link": v})
RawInsert(v) ==
    /\ \E r \in {insert_document(ptab, [link |-> v])} :
          /\ r.db.seq <= MaxParents
          /\ ptab' = r.db
    /\ relOp' = RelDone("insert_document", NoId, "none", "none")
    /\ UNCHANGED <<ctab, cin, pin>>
    /\ UNCHANGED <<storeVars, safeVars, adapterVars, moreVars, lateVars>>

InitRel ==
    /\ InitRelIdle
    /\ InitBulkIdle
    /\ InitRetryIdle
    /\ InitLateIdle
    /\ InitConnected
    /\ InitSafeIdle
    /\ InitEmptyTable

NextRel ==
    \/ \E n \in Vals : ChildNew(n)
    \/ \E id \in Ids : ChildLoad(id)
    \/ \E n \in Vals : ChildSetAttr(n)
    \/ ChildSave
    \/ ChildDelete
    \/ ParentNew
    \/ \E n \in Vals : EmbeddedSetAttr(n)
    \/ ParentSave
    \/ \E id \in 1..MaxParents : ParentLoad(id)
    \/ \E v \in RawLinks : RawInsert(v)

SpecRel == InitRel /\ [][NextRel]_vars


(***************************************************************************)
(* Claims about references.                                                *)
(***************************************************************************)
StoredLink(pd, id) == find_document(pd, id).link
ParentRowExists(pd, id) == find_document(pd, id) # NoDoc
LoadStep(id) == relOp'.op = "from_id" /\ relOp'.id = id /\ ParentRowExists(ptab, id)

\* A dict with exactly the keys "_table" and "_id".
ExactRef(v) == v.t = "map" /\ DOMAIN v.m = RefKeys
Scalar(v) == v.t \in {"int", "str", "none"}

\* A reference whose target cannot be resolved: no type is registered for the
\* table, the row does not exist, or the lookup raises.
Broken(cd, v) ==
    /\ ExactRef(v)
    /\ v.m["_table"].t = "str"
    /\ \/ registry_resolve(v.m["_table"].v) = "None"
       \/ Child_from_id(cd, v.m["_id"]).err # "none"
       \/ Child_from_id(cd, v.m["_id"]).val = NoneV

\* C11: from_id of a row whose payload holds a broken reference completes and
\* the attribute holds the reference dict as stored; saving the instance right
\* after the load leaves the stored row as it was.
BrokenReferencesPreserved ==
    [][\A id \in 1..MaxParents :
         /\ (LoadStep(id) /\ Broken(ctab, StoredLink(ptab, id)))
               => /\ relOp'.err = "none"
                  /\ pin'.link = StoredLink(ptab, id)
         /\ (/\ relOp.op = "from_id" /\ relOp.id = id /\ relOp.err = "none"
             /\ relOp'.op = "save" /\ relOp'.id = id
             /\ ParentRowExists(ptab, id)
             /\ Broken(ctab, StoredLink(ptab, id)))
               => ptab' = ptab
      ]_vars

\* C12: a save of a record that embeds a record saves the embedded record
\* when it has no id; when it has an id, the rows of the embedded record's
\* table are unchanged and the payload holds the pair of its table and id.
EmbeddedSavedOnlyIfNew ==
    [][(relOp'.op = "save" /\ pin # NoInst /\ pin.link.t = "rec")
         => /\ StoredLink(ptab', relOp'.id) = as_ref(pin'.link.inst)
            /\ pin.link.inst._id # NoId => ctab'.rows = ctab.rows
            /\ pin.link.inst._id = NoId
                 => /\ find_document(ctab, pin'.link.inst._id) = NoDoc
                    /\ find_document(ctab', pin'.link.inst._id) # NoDoc
      ]_vars

\* C13: from_id right after the save of a record that embeds a saved record
\* (one whose row exists) gives an instance whose attribute is a record with
\* the id and the attribute values of the embedded record, and the stored
\* payload holds exactly the pair of its table and id.
RoundTripReference ==
    [][\A id \in 1..MaxParents :
         (LoadStep(id) /\ relOp.op = "save" /\ relOp.id = id /\ relOp.emb = "saved")
            => /\ relOp'.err = "none"
               /\ pin'.link.t = "rec"
               /\ pin'.link = pin.link
               /\ StoredLink(ptab, id) =
                    RefDict("children", IntV(pin.link.inst._id))
      ]_vars

\* A record that embeds a saved record was saved and then loaded by id.
RoundTripReferenceWitness ==
    /\ relOp.op = "from_id"
    /\ relOp.emb = "saved"
    /\ relOp.err = "none"
    /\ pin.link.t = "rec"

\* No dict inside v has exactly the keys "_table" and "_id" with scalar values.
RECURSIVE NoExactRef(_)
NoExactRef(v) ==
    IF v.t = "map"
    THEN /\ ~ (ExactRef(v) /\ \A k \in RefKeys : Scalar(v.m[k]))
         /\ \A k \in DOMAIN v.m : NoExactRef(v.m[k])
    ELSE IF v.t = "list" THEN \A n \in DOMAIN v.l : NoExactRef(v.l[n])
         ELSE TRUE

\* C14: on load a dict is resolved as a reference only if it has exactly the
\* keys "_table" and "_id" with scalar values: a payload without such a dict
\* at any depth is loaded as it is stored, and a reference with exactly the
\* two keys whose row exists is replaced by the record.
ReferenceIffExactlyTwoKeys ==
    [][\A id \in 1..MaxParents :
         LoadStep(id) =>
            LET v == StoredLink(ptab, id)
            IN  /\ NoExactRef(v) => pin'.link = v
                /\ (ExactRef(v) /\ ~ Broken(ctab, v) /\ Scalar(v.m["_id"])
                      /\ v.m["_table"].t = "str")
                     => pin'.link.t = "rec"
      ]_vars


(***************************************************************************)
(* Reads of versioned records: from_id, refresh and the query sets, next   *)
(* to a writer that uses the store's versioned upsert directly.            *)
(***************************************************************************)
\* SQLerQuerySet.all / first and AsyncSQLerQuerySet.all / first for one row of
\* the result: model_validate(d) and inst._id = d["_id"]; the document comes
\* from SELECT _id, data, and _version keeps its default.
QuerySet_materialize(d, id) ==
    LET doc == find_document(d, id)
    IN  [_id |-> doc._id, tier |-> model_validate(doc).tier,
         _version |-> NewSafeInstance._version]

\* query().all(): neither SQLerSafeModel's _SafeSQLerQuerySet nor
\* AsyncSQLerSafeModel overrides all.
Safe_query_all(k, d, id, include_version) == QuerySet_materialize(d, id)

\* query().first(): with SQLER_QUERY_INCLUDE_VERSION set, SQLerSafeModel.query
\* returns a _SafeSQLerQuerySet, whose first loads the row again with from_id.
Safe_query_first(k, d, id, include_version) ==
    IF k = "sync" /\ include_version
    THEN LET fresh == SafeModel_from_id(d, id)
         IN  IF fresh.err = "none" THEN fresh.inst ELSE QuerySet_materialize(d, id)
    ELSE QuerySet_materialize(d, id)

\* Caller c keeps the instance of row id out of query().all().
SafeQueryAll(c, id, include_version) ==
    /\ Idle(c)
    /\ RowExists(DB, id)
    /\ inst' = [inst EXCEPT ![c] = Safe_query_all(kind, DB, id, include_version)]
    /\ recov' = [recov EXCEPT ![c] = "none"]
    /\ UNCHANGED <<extVars, adapterVars, rows, seq, lastOp, issueCount, boundIds, kind,
                   call, won, intervened>>

\* Caller c keeps the instance query().first() returns, here for row id.
SafeQueryFirst(c, id, include_version) ==
    /\ Idle(c)
    /\ RowExists(DB, id)
    /\ inst' = [inst EXCEPT ![c] = Safe_query_first(kind, DB, id, include_version)]
    /\ recov' = [recov EXCEPT ![c] = "none"]
    /\ UNCHANGED <<extVars, adapterVars, rows, seq, lastOp, issueCount, boundIds, kind,
                   call, won, intervened>>

\* db.upsert_with_version(table, id, doc, expected) by a writer that holds no
\* record instance; a refused write changes nothing.
DbVersionedWrite(id, doc, expected) ==
    /\ \E r \in {upsert_with_version(DB, id, doc, expected)} :
          /\ r.err = "none"
          /\ r.db.seq <= MaxId
          /\ \A w \in r.db.rows : w._version <= MaxVersion
          /\ SetDB(r.db)
    /\ intervened' = [c \in Callers |-> TRUE]
    /\ UNCHANGED <<extVars, adapterVars, inst, lastOp, issueCount, boundIds, kind, call,
                   won, recov>>

NextReads ==
    \/ \E c \in Callers, id \in Ids : SafeLoad(c, id)
    \/ \E c \in Callers : SafeRefresh(c)
    \/ \E c \in Callers : SafeDelete(c)
    \/ \E c \in Callers, id \in Ids, f \in BOOLEAN : SafeQueryAll(c, id, f)
    \/ \E c \in Callers, id \in Ids, f \in BOOLEAN : SafeQueryFirst(c, id, f)
    \/ \E id \in Ids \cup {NoId}, doc \in PlainDocs, v \in Versions :
          DbVersionedWrite(id, doc, v)

\* Readers of versioned records next to a writer on the versioned store.
SpecReads == InitSafe /\ [][NextReads]_vars

StoredTier(d, id) == json_loads(Stored(d, id).data).tier

\* C15: refresh of an instance without id raises and of an instance whose row
\* is gone raises LookupError, both leaving the instance as it was; refresh of
\* an instance whose row exists keeps the id and takes the attribute and the
\* version of the stored row.  Nothing is written.
RefreshReplacesAttributes ==
    \A c \in Callers :
        LET i == inst[c]
            r == Safe_refresh(kind, DB, i)
        IN  /\ r.db = DB
            /\ i._id = NoId => (r.err = "ValueError" /\ r.inst = i)
            /\ (i._id # NoId /\ ~ RowExists(DB, i._id))
                  => (r.err = "LookupError" /\ r.inst = i)
            /\ (i._id # NoId /\ RowExists(DB, i._id))
                  => /\ r.err = "none"
                     /\ r.inst._id = i._id
                     /\ r.inst.tier = StoredTier(DB, i._id)
                     /\ r.inst._version = Stored(DB, i._id)._version

\* C16: an instance read with from_id, with query().all() or with
\* query().first() carries the stored version of its row, and so does an
\* instance after refresh.
ReadsFetchVersion ==
    /\ \A id \in Ids :
          RowExists(DB, id) =>
             /\ SafeModel_from_id(DB, id).inst._version = Stored(DB, id)._version
             /\ \A f \in BOOLEAN :
                   /\ Safe_query_all(kind, DB, id, f)._version = Stored(DB, id)._version
                   /\ Safe_query_first(kind, DB, id, f)._version = Stored(DB, id)._version
    /\ \A c \in Callers :
          (inst[c]._id # NoId /\ RowExists(DB, inst[c]._id))
             => Safe_refresh(kind, DB, inst[c]).inst._version
                   = Stored(DB, inst[c]._id)._version


(***************************************************************************)
(* Claims about bulk_upsert's id assignment.                               *)
(***************************************************************************)
\* The rows of the table hold payload text under id.
RowStores(rs, id, text) == \E w \in rs : w._id = id /\ w.data = text

\* C17: bulk_upsert(table, docs) returns one id per doc in input order; a doc
\* that carried an id keeps it, and the k-th doc without an id receives
\* max(id)-before + k, the id of the row that stores its payload, whatever the
\* history of the table.
BulkIdAssignment ==
    [][\A docs \in Batches :
          DbBulkUpsert(docs) =>
             LET r == bulk_upsert(DB, docs)
             IN  /\ r.err = "none"
                 /\ Len(r.ret) = Len(docs)
                 /\ \A n \in 1..Len(docs) :
                       IF DocId(docs[n]) # NoId
                       THEN r.ret[n] = DocId(docs[n])
                       ELSE /\ r.ret[n] = MaxRowId(rows) + NewBefore(docs, n)
                            /\ RowStores(rows', r.ret[n],
                                         json_dumps(WithoutId(docs[n])))]_vars


(***************************************************************************)
(* bulk_upsert statement by statement, next to another thread that inserts *)
(* into the same table through the same handle.  Every adapter call takes  *)
(* the adapter's lock for itself, so single statements are atomic;         *)
(* __enter__ takes no lock.                                                *)
(***************************************************************************)
\* The largest row id in this specification.
MaxBulkId == 3

\* Batches of new docs.
NewBatches == UNION {[1..n -> PlainDocs] : n \in 1..MaxBatch}

bulk_params(docs) ==
    [n \in 1..Len(docs) |-> <<DocId(docs[n]), json_dumps(WithoutId(docs[n]))>>]

\* The count assertion and the id assignment after the scope was left.
bulk_assign(docs, max_id_before, max_id_after) ==
    LET new_docs == NewBefore(docs, Len(docs))
    IN  IF new_docs > 0 /\ max_id_after - max_id_before # new_docs
        THEN [ret |-> <<>>, err |-> "AssertionError"]
        ELSE [ret |-> [n \in 1..Len(docs) |->
                          IF DocId(docs[n]) = NoId
                          THEN max_id_before + NewBefore(docs, n)
                          ELSE DocId(docs[n])],
              err |-> "none"]

\* The ids of the rows executemany writes for docs, in input order.
OwnRows(d, docs) ==
    [n \in 1..Len(docs) |->
        IF DocId(docs[n]) = NoId
        THEN NextRowId(d) + NewBefore(docs, n) - 1
        ELSE DocId(docs[n])]

BetweenReads == bulk.pc \in {"read_before", "written"}

\* The parameter rows are built and the scope is entered: __enter__ returns
\* the connected adapter.
BulkEnter(docs) ==
    /\ bulk.pc = "idle"
    /\ bulk' = [IdleBulk EXCEPT !.pc = "entered", !.docs = docs]
    /\ UNCHANGED <<storeVars, safeVars, adapterVars, relVars, lateVars, retryVars>>

\* SELECT COALESCE(MAX(_id), 0)
BulkReadBefore ==
    /\ bulk.pc = "entered"
    /\ bulk' = [bulk EXCEPT !.pc = "read_before", !.max_id_before = MaxRowId(rows)]
    /\ UNCHANGED <<storeVars, safeVars, adapterVars, relVars, lateVars, retryVars>>

\* adp.executemany(query, params), which commits.
BulkExecutemany ==
    /\ bulk.pc = "read_before"
    /\ \E d2 \in {executemany_upsert(DB, bulk_params(bulk.docs))} :
          /\ d2.seq <= MaxBulkId
          /\ SetDB(d2)
    /\ bulk' = [bulk EXCEPT !.pc = "written", !.own = OwnRows(DB, bulk.docs)]
    /\ UNCHANGED <<inst, lastOp, issueCount, boundIds, safeVars, adapterVars, relVars, lateVars,
                   retryVars>>

\* SELECT MAX(_id)
BulkReadAfter ==
    /\ bulk.pc = "written"
    /\ bulk' = [bulk EXCEPT !.pc = "read_after", !.max_id_after = MaxRowId(rows)]
    /\ UNCHANGED <<storeVars, safeVars, adapterVars, relVars, lateVars, retryVars>>

\* __exit__ commits; then the assertion and the assignment of the ids.
BulkExit ==
    /\ bulk.pc = "read_after"
    /\ \E r \in {bulk_assign(bulk.docs, bulk.max_id_before, bulk.max_id_after)} :
          bulk' = [bulk EXCEPT !.pc = "done", !.ret = r.ret, !.err = r.err]
    /\ UNCHANGED <<storeVars, safeVars, adapterVars, relVars, lateVars, retryVars>>

\* The caller has the result.
BulkReturn ==
    /\ bulk.pc = "done"
    /\ bulk' = IdleBulk
    /\ UNCHANGED <<storeVars, safeVars, adapterVars, relVars, lateVars, retryVars>>

\* insert_document by the other thread.
ForeignInsert(doc) ==
    /\ \E r \in {insert_document(DB, doc)} :
          /\ r.ret <= MaxBulkId
          /\ SetDB(r.db)
    /\ bulk' = [bulk EXCEPT !.foreign = IF BetweenReads THEN 1 ELSE @]
    /\ UNCHANGED <<inst, lastOp, issueCount, boundIds, safeVars, adapterVars, relVars, lateVars,
                   retryVars>>

NextBulk ==
    \/ \E docs \in NewBatches : BulkEnter(docs)
    \/ BulkReadBefore
    \/ BulkExecutemany
    \/ BulkReadAfter
    \/ BulkExit
    \/ BulkReturn
    \/ \E doc \in PlainDocs : ForeignInsert(doc)

\* One thread in bulk_upsert, another inserting, on one handle.
SpecBulk == InitStore /\ [][NextBulk]_vars

\* C18: while bulk_upsert runs, no insert of another thread falls between its
\* two max(id) reads; the count assertion holds and every new doc of the batch
\* is assigned the id of its own row.
BulkWindowConsistent ==
    /\ bulk.foreign = 0
    /\ bulk.pc = "done" => (bulk.err = "none" /\ bulk.ret = bulk.own)


(***************************************************************************)
(* Load-modify-save rounds on versioned records.  A caller loads a row,    *)
(* changes the attribute and saves once; the storage may answer a          *)
(* statement with "database is locked".  The save that runs is the one the *)
(* class resolves to: SQLerModel.save for SQLerSafeModel,                  *)
(* AsyncSQLerSafeModel.save for the async class.                           *)
(***************************************************************************)
\* The retry bound of save (max_retries, 128 in the source), scaled down.
MaxRetries == 2

\* Successful writes to the table in this specification.
MaxWrites == 3

Base(i, id) == [id |-> id, val |-> i.tier, ver |-> i._version, epoch |-> env.writes]

\* Caller c loads row id and keeps the loaded state as its snapshot.
RoundLoad(c, id) ==
    /\ Idle(c)
    /\ \E r \in {SafeModel_from_id(DB, id)} :
          /\ r.err = "none"
          /\ inst' = [inst EXCEPT ![c] = r.inst]
          /\ rt' = [rt EXCEPT ![c] = [IdleRound EXCEPT !.base = Base(r.inst, id)]]
    /\ UNCHANGED <<rows, seq, lastOp, issueCount, boundIds, safeVars, adapterVars,
                   relVars, lateVars, bulkVars, env>>

RoundSetAttr(c, v) ==
    /\ Idle(c)
    /\ rt[c].fin = "none"
    /\ inst[c].tier # v
    /\ inst' = [inst EXCEPT ![c].tier = v]
    /\ UNCHANGED <<rows, seq, lastOp, issueCount, boundIds, safeVars, adapterVars,
                   relVars, lateVars, moreVars>>

\* save is called: payload and arguments are taken from the instance.
RoundSaveCall(c) ==
    /\ Idle(c)
    /\ rt[c].fin = "none"
    /\ \E a \in {Safe_save_args(kind, inst[c])} :
          call' = [call EXCEPT ![c] = [IdleCall EXCEPT !.pc = "called",
                       !.id = a.id, !.payload = a.payload, !.expected = a.expected]]
    /\ rt' = [rt EXCEPT ![c].delta = IF rt[c].base = NoDoc THEN 0
                                     ELSE inst[c].tier - rt[c].base.val]
    /\ UNCHANGED <<storeVars, kind, won, recov, intervened, adapterVars, relVars, lateVars,
                   bulkVars, env>>

\* The statement of save runs.
RoundSaveStmt(c) ==
    /\ call[c].pc = "called"
    /\ env.writes < MaxWrites
    /\ \E r \in {Safe_save_stmt(kind, DB, call[c])} :
          /\ r.db.seq <= MaxId
          /\ \A x \in r.db.rows : x._version <= MaxVersion
          /\ SetDB(r.db)
          /\ call' = [call EXCEPT ![c].pc = "returning", ![c].ret_id = r.ret_id,
                         ![c].ret_version = r.ret_version, ![c].err = r.err]
          /\ env' = [env EXCEPT !.writes = IF r.err = "none" THEN @ + 1 ELSE @]
    /\ rt' = [rt EXCEPT ![c].attempts = @ + 1]
    /\ UNCHANGED <<inst, lastOp, issueCount, boundIds, kind, won, recov, intervened,
                   adapterVars, relVars, lateVars, bulkVars>>

\* The statement of save raises sqlite3.OperationalError("database is locked").
RoundSaveLocked(c) ==
    /\ call[c].pc = "called"
    /\ call' = [call EXCEPT ![c].pc = "returning", ![c].err = "OperationalError"]
    /\ rt' = [rt EXCEPT ![c].attempts = @ + 1]
    /\ UNCHANGED <<storeVars, kind, won, recov, intervened, adapterVars, relVars, lateVars,
                   bulkVars, env>>

\* save returns or raises.  Neither save catches sqlite3.OperationalError,
\* which is no RuntimeError.
RoundSaveRet(c) ==
    /\ call[c].pc = "returning"
    /\ \E r \in {IF call[c].err = "OperationalError"
                 THEN [inst |-> inst[c], err |-> "OperationalError"]
                 ELSE Safe_save_ret(kind, inst[c], call[c])} :
          /\ inst' = [inst EXCEPT ![c] = r.inst]
          /\ rt' = [rt EXCEPT ![c].fin = IF r.err = "none" THEN "ok" ELSE r.err]
    /\ call' = [call EXCEPT ![c] = IdleCall]
    /\ UNCHANGED <<rows, seq, lastOp, issueCount, boundIds, kind, won, recov,
                   intervened, adapterVars, relVars, lateVars, bulkVars, env>>

InitRetry ==
    /\ InitRelIdle
    /\ InitBulkIdle
    /\ InitLateIdle
    /\ InitConnected
    /\ kind \in {"sync", "async"}
    /\ rows = {}
    /\ seq = 0
    /\ inst = [c \in Callers |-> NewSafeInstance]
    /\ lastOp = NoOp
    /\ issueCount = [i \in Ids |-> 0]
    /\ boundIds = [c \in Callers |-> {}]
    /\ call = [c \in Callers |-> IdleCall]
    /\ won = [i \in Ids |-> [v \in Versions |-> 0]]
    /\ recov = [c \in Callers |-> "none"]
    /\ intervened = [c \in Callers |-> FALSE]
    /\ rt = [c \in Callers |-> IdleRound]
    /\ env \in {[retry_on_stale |-> f, writes |-> 0] : f \in BOOLEAN}

NextRetry ==
    \/ \E c \in Callers, id \in Ids : RoundLoad(c, id)
    \/ \E c \in Callers, v \in Vals : RoundSetAttr(c, v)
    \/ \E c \in Callers : RoundSaveCall(c)
    \/ \E c \in Callers : RoundSaveStmt(c)
    \/ \E c \in Callers : RoundSaveLocked(c)
    \/ \E c \in Callers : RoundSaveRet(c)

\* Concurrent load-modify-save rounds under SQLER_RETRY_ON_STALE set or unset.
SpecRetry == InitRetry /\ [][NextRetry]_vars

\* C19: a save makes at most MaxRetries attempts, and it raises only when the
\* attempts are exhausted, or at its first version conflict when retry-on-stale
\* is disabled (or the row is gone); stale conflicts under retry-on-stale and
\* storage-locked errors are retried until then.
SaveRetriesBounded ==
    \A c \in Callers :
        /\ rt[c].attempts <= MaxRetries
        /\ rt[c].fin \notin {"none", "ok"}
              => \/ rt[c].attempts = MaxRetries
                 \/ /\ rt[c].fin = "StaleVersionError"
                    /\ rt[c].attempts = 1
                    /\ \/ ~ env.retry_on_stale
                       \/ ~ RowExists(DB, inst[c]._id)

RECURSIVE SumDelta(_)
SumDelta(S) ==
    IF S = {} THEN 0
    ELSE LET c == CHOOSE x \in S : TRUE
         IN  rt[c].delta + SumDelta(S \ {c})

\* All callers loaded the same row in the same stored state, and each has
\* changed the attribute and saved once since, without a storage-locked error.
AllSavedFromSameBase ==
    /\ \A c \in Callers :
          /\ rt[c].base # NoDoc
          /\ rt[c].delta # 0
          /\ rt[c].fin \in {"ok", "StaleVersionError"}
    /\ \A c, o \in Callers : rt[c].base = rt[o].base

\* C20: with retry-on-stale enabled, savers that started from the same stored
\* value x and changed the attribute by d_i all succeed; the stored value is
\* then x plus the sum of the d_i, and the stored version has grown by the
\* number of savers.
DeltaMergeSums ==
    (env.retry_on_stale /\ AllSavedFromSameBase)
       => LET b == rt[CHOOSE c \in Callers : TRUE].base
          IN  /\ \A c \in Callers : rt[c].fin = "ok"
              /\ RowExists(DB, b.id)
              /\ StoredTier(DB, b.id) = b.val + SumDelta(Callers)
              /\ Stored(DB, b.id)._version = b.ver + NumCallers


(***************************************************************************)
(* Claims about the stored payload.                                        *)
(***************************************************************************)
PayloadKeys(text) == {m[1] : m \in text}

\* C21: no stored JSON payload contains the key "_id", whatever documents
\* insert_document, upsert_document and bulk_upsert were given, and the id
\* find_document reports for a row is the value of the row's id column.
PayloadNeverHoldsId ==
    \A r \in rows :
        /\ "_id" \notin PayloadKeys(r.data)
        /\ find_document(DB, r._id)["_id"] = r._id


(***************************************************************************)
(* Binding record types (set_db) and the process-wide registry.            *)
(***************************************************************************)
\* Record types: subclasses of SQLerModel and of AsyncSQLerModel.
SyncTypes == {"User", "Person"}
AsyncTypes == {"AUser"}
Types == SyncTypes \cup AsyncTypes

\* _default_table_name: name.lower() + "s".
default_table_name ==
    [c \in Types |-> CASE c = "User" -> "users"
                       [] c = "Person" -> "persons"
                       [] c = "AUser" -> "ausers"]

TableNames == {default_table_name[c] : c \in Types} \cup {"people"}

\* registry.register / registry.resolve on the dict _REGISTRY.
register(reg, table, cls) == [reg EXCEPT ![table] = cls]
resolve(reg, table) == reg[table]

\* set_db(db, table): table is "None" when the argument is omitted.
SQLerModel_set_db(b, cls, table) ==
    LET t == IF table = "None" THEN default_table_name[cls] ELSE table
    IN  [b EXCEPT !.cls[cls] = t,
                  !.tabs = @ \cup {t},
                  !.reg = register(@, t, cls)]

AsyncSQLerModel_set_db(b, cls, table) ==
    LET t == IF table = "None" THEN default_table_name[cls] ELSE table
    IN  [b EXCEPT !.cls[cls] = t]

\* The table a bind of cls names.
BoundTable(cls, table) == IF table = "None" THEN default_table_name[cls] ELSE table

\* A record type is bound; last remembers the type bound last to each name.
SetDb(cls, table) ==
    /\ \E b \in {IF cls \in SyncTypes THEN SQLerModel_set_db(bind, cls, table)
                 ELSE AsyncSQLerModel_set_db(bind, cls, table)} :
          bind' = [b EXCEPT !.last[BoundTable(cls, table)] = cls]
    /\ UNCHANGED <<storeVars, safeVars, adapterVars, relVars, moreVars, qs, cn, tx>>

InitBind ==
    /\ InitRelIdle /\ InitBulkIdle /\ InitRetryIdle
    /\ InitConnected /\ InitSafeIdle /\ InitEmptyTable
    /\ bind = [cls |-> [c \in Types |-> "None"],
               reg |-> [t \in TableNames |-> "None"],
               tabs |-> {},
               last |-> [t \in TableNames |-> "None"]]
    /\ qs = Unused /\ cn = Unused /\ tx = Unused

NextBind == \E cls \in Types, table \in TableNames \cup {"None"} : SetDb(cls, table)

\* Record types being bound and rebound in one process.
SpecBind == InitBind /\ [][NextBind]_vars

\* C22: after any sequence of binds, the table of every bound name exists and
\* the registry gives, for every table name, the type bound last to it, and
\* null for a name that was never bound.
BindRegistersLast ==
    \A t \in TableNames :
        /\ resolve(bind.reg, t) = bind.last[t]
        /\ bind.last[t] # "None" => t \in bind.tabs


(***************************************************************************)
(* Expressions (query/expression.py) and fields (query/field.py).  An SQL  *)
(* fragment is kept as the tree its text denotes: "0", a comparison of     *)
(* JSON_EXTRACT(data, path) with "?", a membership test over json_each,    *)
(* "(l) AND (r)", "(l) OR (r)", "NOT (e)".  A path is a sequence of keys   *)
(* and indices; JSON values are the tagged values of the relations above.  *)
(***************************************************************************)
Key(k) == [s |-> "key", k |-> k]
Idx(n) == [s |-> "idx", n |-> n]

Lit0 == [k |-> "0"]
CmpSql(path, op) == [k |-> "cmp", path |-> path, op |-> op]
InSql(path, n) == [k |-> "in", path |-> path, n |-> n]
AndSql(l, r) == [k |-> "and", l |-> l, r |-> r]
OrSql(l, r) == [k |-> "or", l |-> l, r |-> r]
NotSql(e) == [k |-> "not", e |-> e]
AnySql(base, last, op) == [k |-> "any", base |-> base, last |-> last, op |-> op]

\* SQLerExpression(sql, params): params or [].
SQLerExpression(sql, params) == [sql |-> sql, params |-> params]

\* __and__: f"({self.sql}) AND ({other.sql})", self.params + other.params
SQLerExpression_and(a, b) == SQLerExpression(AndSql(a.sql, b.sql), a.params \o b.params)

\* __or__ and __invert__, as the specification's combinator table gives them.
SQLerExpression_or(a, b) == SQLerExpression(OrSql(a.sql, b.sql), a.params \o b.params)
SQLerExpression_not(a) == SQLerExpression(NotSql(a.sql), a.params)

\* SQLerField.__compare without any(): JSON_EXTRACT(data, path) op ?
SQLerField_compare(path, op, val) == SQLerExpression(CmpSql(path, op), <<val>>)

\* SQLerAnyExpression for one any(): EXISTS (SELECT 1 FROM
\* json_each(json_extract(data, base)) AS a WHERE json_extract(a.value, last) op ?),
\* base being the path up to the array and last the final key.
SQLerAnyExpression(path, array_key, op, val) ==
    LET idx0 == CHOOSE n \in 1..Len(path) :
                   /\ path[n] = Key(array_key)
                   /\ \A k \in 1..(n - 1) : path[k] # Key(array_key)
    IN  SQLerExpression(AnySql(SubSeq(path, 1, idx0), <<path[Len(path)]>>, op), <<val>>)

\* A mutant of SQLerField_isin: no branch for the empty list.
SQLerField_isin_in(path, values) ==
    SQLerExpression(InSql(path, Len(values)), values)

\* SQLerField.isin
SQLerField_isin(path, values) ==
    IF values = <<>>
    THEN SQLerExpression(Lit0, <<>>)
    ELSE SQLerExpression(InSql(path, Len(values)), values)

(***************************************************************************)
(* What SQLite computes for these fragments on one row's data.  Truth is   *)
(* three-valued: "T", "F", and "N" for NULL.                               *)
(***************************************************************************)
\* json_extract(v, path): NULL when a key is asked of a value that is no
\* object, an index of a value that is no array, or the member is absent.
RECURSIVE json_extract(_, _)
json_extract(v, path) ==
    IF path = <<>> THEN v
    ELSE LET seg == Head(path)
         IN  IF seg.s = "key"
             THEN IF v.t = "map" /\ seg.k \in DOMAIN v.m
                  THEN json_extract(v.m[seg.k], Tail(path))
                  ELSE NoneV
             ELSE IF v.t = "list" /\ seg.n + 1 <= Len(v.l)
                  THEN json_extract(v.l[seg.n + 1], Tail(path))
                  ELSE NoneV

\* Storage classes in comparison order: numbers before text; an extracted
\* object or array is its JSON text.
StorageRank(x) == IF x.t = "int" THEN 1 ELSE 2

Truth(b) == IF b THEN "T" ELSE "F"

\* x op y for the operators "=" and ">"; two values of the text class are
\* only compared for equality here.
sql_compare(op, x, y) ==
    IF x = NoneV \/ y = NoneV THEN "N"
    ELSE IF op = "=" THEN Truth(x = y)
    ELSE IF StorageRank(x) # StorageRank(y)
         THEN Truth(StorageRank(x) > StorageRank(y))
         ELSE Truth(x.v > y.v)

\* The rows of json_each(v): the elements of an array, the member values of
\* an object, the value itself for a scalar, nothing for NULL.
json_each(v) ==
    IF v.t = "list" THEN {v.l[n] : n \in 1..Len(v.l)}
    ELSE IF v.t = "map" THEN {v.m[k] : k \in DOMAIN v.m}
    ELSE IF v = NoneV THEN {}
    ELSE {v}

sql_and(x, y) ==
    IF x = "F" \/ y = "F" THEN "F" ELSE IF x = "N" \/ y = "N" THEN "N" ELSE "T"
sql_or(x, y) ==
    IF x = "T" \/ y = "T" THEN "T" ELSE IF x = "N" \/ y = "N" THEN "N" ELSE "F"
sql_not(x) == IF x = "N" THEN "N" ELSE IF x = "T" THEN "F" ELSE "T"

\* The number of "?" in a fragment.
RECURSIVE placeholders(_)
placeholders(sql) ==
    CASE sql.k = "0" -> 0
      [] sql.k = "cmp" -> 1
      [] sql.k = "any" -> 1
      [] sql.k = "in" -> sql.n
      [] sql.k = "not" -> placeholders(sql.e)
      [] OTHER -> placeholders(sql.l) + placeholders(sql.r)

\* The value of fragment sql, with params bound to its "?" in order, on data.
RECURSIVE sql_eval(_, _, _)
sql_eval(sql, params, data) ==
    CASE sql.k = "0" -> "F"
      [] sql.k = "cmp" -> sql_compare(sql.op, json_extract(data, sql.path), params[1])
      [] sql.k = "in" ->
            Truth(\E v \in json_each(json_extract(data, sql.path)) :
                     \E n \in 1..sql.n : sql_compare("=", v, params[n]) = "T")
      [] sql.k = "any" ->
            Truth(\E a \in json_each(json_extract(data, sql.base)) :
                     sql_compare(sql.op, json_extract(a, sql.last), params[1]) = "T")
      [] sql.k = "not" -> sql_not(sql_eval(sql.e, params, data))
      [] sql.k = "and" ->
            sql_and(sql_eval(sql.l, SubSeq(params, 1, placeholders(sql.l)), data),
                    sql_eval(sql.r, SubSeq(params, placeholders(sql.l) + 1, Len(params)),
                             data))
      [] OTHER ->
            sql_or(sql_eval(sql.l, SubSeq(params, 1, placeholders(sql.l)), data),
                   sql_eval(sql.r, SubSeq(params, placeholders(sql.l) + 1, Len(params)),
                            data))

\* SELECT ... FROM t WHERE expr: the rows on which the expression is true.
Select(rs, e) == {r \in rs : sql_eval(e.sql, e.params, r.data) = "T"}


(***************************************************************************)
(* Expressions and query builders as objects.  qs.lists holds the list     *)
(* objects, qs.exprs the SQLerExpression objects (sql, and the list object *)
(* that is their params), qs.queries the SQLerQuery objects.  An object is *)
(* named by its position; objects are never freed.                         *)
(***************************************************************************)
MaxExprs == 4
MaxQueries == 3
MaxQueryRows == 3

\* The value of expression object n: its sql and the contents of its params.
ExprValue(h, n) == SQLerExpression(h.exprs[n].sql, h.lists[h.exprs[n].params])

\* SQLerExpression.__init__ on a list that the combinator has just built: the
\* list is a new object, and so is the expression.
NewExpression(h, e) ==
    [h EXCEPT !.lists = Append(@, e.params),
              !.exprs = Append(@, [sql |-> e.sql, params |-> Len(h.lists) + 1])]

\* A mutant of Expr_and: the left operand's list is extended in place and
\* shared by the result.
Expr_and_extend(h, i, j) ==
    [h EXCEPT !.lists[h.exprs[i].params] = @ \o h.lists[h.exprs[j].params],
              !.exprs = Append(@, [sql |-> AndSql(h.exprs[i].sql, h.exprs[j].sql),
                                   params |-> h.exprs[i].params])]

\* a & b, a | b, ~a on expression objects i and j.
Expr_and(h, i, j) == NewExpression(h, SQLerExpression_and(ExprValue(h, i), ExprValue(h, j)))
Expr_or(h, i, j) == NewExpression(h, SQLerExpression_or(ExprValue(h, i), ExprValue(h, j)))
Expr_not(h, i) == NewExpression(h, SQLerExpression_not(ExprValue(h, i)))

\* SQLerQuery(table, adapter, expression, order, desc, limit); expression 0,
\* order "None" and limit -1 stand for None.
SQLerQuery(table, adapter, expression, order, desc, limit) ==
    [table |-> table, adapter |-> adapter, expression |-> expression,
     order |-> order, desc |-> desc, limit |-> limit]

NewQuery(h, q) == [h EXCEPT !.queries = Append(@, q)]

\* filter: the expression itself, or self._expression & expression.
SQLerQuery_filter(h, q, e) ==
    LET self == h.queries[q]
        h2 == IF self.expression = 0 THEN h ELSE Expr_and(h, self.expression, e)
        new_expression == IF self.expression = 0 THEN e ELSE Len(h2.exprs)
    IN  NewQuery(h2, SQLerQuery(self.table, self.adapter, new_expression,
                                self.order, self.desc, self.limit))

\* exclude: ~expression, or self._expression & ~expression.
SQLerQuery_exclude(h, q, e) ==
    LET self == h.queries[q]
        h1 == Expr_not(h, e)
        not_expr == Len(h1.exprs)
        h2 == IF self.expression = 0 THEN h1 ELSE Expr_and(h1, self.expression, not_expr)
        new_expression == IF self.expression = 0 THEN not_expr ELSE Len(h2.exprs)
    IN  NewQuery(h2, SQLerQuery(self.table, self.adapter, new_expression,
                                self.order, self.desc, self.limit))

\* A mutant of SQLerQuery_order_by: the receiver is changed and returned.
SQLerQuery_order_by_self(h, q, field, desc) ==
    [h EXCEPT !.queries[q].order = field, !.queries[q].desc = desc]

SQLerQuery_order_by(h, q, field, desc) ==
    LET self == h.queries[q]
    IN  NewQuery(h, SQLerQuery(self.table, self.adapter, self.expression,
                               field, desc, self.limit))

SQLerQuery_limit(h, q, n) ==
    LET self == h.queries[q]
    IN  NewQuery(h, SQLerQuery(self.table, self.adapter, self.expression,
                               self.order, self.desc, n))

\* _build_query: the statement (its parts) and the params.
SQLerQuery_build_query(h, q) ==
    LET self == h.queries[q]
    IN  [sql |-> [select |-> "data", table |-> self.table,
                  where |-> IF self.expression = 0 THEN [k |-> "none"]
                            ELSE h.exprs[self.expression].sql,
                  order |-> self.order,
                  desc |-> self.order # "None" /\ self.desc,
                  limit |-> self.limit],
         params |-> IF self.expression = 0 THEN <<>>
                    ELSE h.lists[h.exprs[self.expression].params]]

\* The rows the statement's WHERE clause lets through.
SQLerQuery_where(h, q) ==
    IF h.queries[q].expression = 0 THEN h.rows
    ELSE Select(h.rows, ExprValue(h, h.queries[q].expression))

ExprIds == 1..Len(qs.exprs)
QueryIds == 1..Len(qs.queries)

QueryStep(h, op) ==
    /\ Len(h.exprs) <= MaxExprs
    /\ Len(h.queries) <= MaxQueries
    /\ qs' = [h EXCEPT !.last = op]
    /\ UNCHANGED <<storeVars, safeVars, adapterVars, relVars, moreVars, bind, cn, tx>>

ExprAnd(i, j) == QueryStep(Expr_and(qs, i, j), "and")
ExprOr(i, j) == QueryStep(Expr_or(qs, i, j), "or")
ExprNot(i) == QueryStep(Expr_not(qs, i), "not")
QueryFilter(q, e) == QueryStep(SQLerQuery_filter(qs, q, e), "filter")
QueryExclude(q, e) == QueryStep(SQLerQuery_exclude(qs, q, e), "exclude")
QueryOrderBy(q, f, d) == QueryStep(SQLerQuery_order_by(qs, q, f, d), "order_by")
QueryLimit(q, n) == QueryStep(SQLerQuery_limit(qs, q, n), "limit")

\* The expressions a caller starts from, and the tables they run on.
TagsPath == <<Key("tags")>>
Leaves ==
    {SQLerField_compare(<<Key("n")>>, ">", IntV(1)),
     SQLerField_isin(TagsPath, <<IntV(1), IntV(2)>>),
     SQLerField_isin(TagsPath, <<>>)}

QueryDocAt ==
    <<MapV([n |-> IntV(2), tags |-> ListV(<<IntV(1)>>)]),
      MapV([n |-> IntV(1), tags |-> ListV(<<>>)]),
      MapV([tags |-> IntV(2)])>>

QueryTable(n) == {[_id |-> i, data |-> QueryDocAt[i]] : i \in 1..n}

InitQuery ==
    /\ InitRelIdle /\ InitBulkIdle /\ InitRetryIdle
    /\ InitConnected /\ InitSafeIdle /\ InitEmptyTable
    /\ bind = Unused /\ cn = Unused /\ tx = Unused
    /\ \E a \in Leaves, b \in Leaves, n \in {MaxQueryRows} :
          /\ a # b
          /\ qs = [lists |-> <<a.params, b.params>>,
                   exprs |-> <<[sql |-> a.sql, params |-> 1], [sql |-> b.sql, params |-> 2]>>,
                   queries |-> <<SQLerQuery("docs", "adapter", 0, "None", FALSE, -1)>>,
                   rows |-> QueryTable(n),
                   last |-> "none"]

NextQuery ==
    \/ \E i \in ExprIds, j \in ExprIds : ExprAnd(i, j)
    \/ \E i \in ExprIds, j \in ExprIds : ExprOr(i, j)
    \/ \E i \in ExprIds : ExprNot(i)
    \/ \E q \in QueryIds, e \in ExprIds : QueryFilter(q, e)
    \/ \E q \in QueryIds, e \in ExprIds : QueryExclude(q, e)
    \/ \E q \in QueryIds, d \in BOOLEAN : QueryOrderBy(q, "n", d)
    \/ \E q \in QueryIds : QueryLimit(q, 1)

\* Expressions combined and query chains built from shared receivers.
SpecQuery == InitQuery /\ [][NextQuery]_vars


QueryHeap == "last" \in DOMAIN qs
NewExpr == Len(qs.exprs) + 1
OldParams == {qs.exprs[n].params : n \in ExprIds}

\* Every expression object that existed before the step has the sql and the
\* params it had, and the step made one expression on a list of its own.
AllocatesExpression ==
    /\ Len(qs'.exprs) = NewExpr
    /\ qs'.exprs[NewExpr].params \notin OldParams
    /\ \A n \in ExprIds : ExprValue(qs', n) = ExprValue(qs, n)

\* C24: a AND b, a OR b and NOT a each allocate a new expression whose params
\* are a.params followed by b.params (a.params for NOT), in order, and the sql
\* and params of a and of b are the same before and after.
ExpressionsImmutable ==
    [][QueryHeap =>
        /\ \A i \in ExprIds, j \in ExprIds :
              ExprAnd(i, j) \/ ExprOr(i, j) =>
                 /\ AllocatesExpression
                 /\ ExprValue(qs', NewExpr).params =
                        ExprValue(qs, i).params \o ExprValue(qs, j).params
        /\ \A i \in ExprIds :
              ExprNot(i) =>
                 /\ AllocatesExpression
                 /\ ExprValue(qs', NewExpr).params = ExprValue(qs, i).params]_vars

\* Two operands with parameters have been combined, each way.
ExpressionsImmutableWitness ==
    /\ QueryHeap
    /\ \E k \in {"and", "or", "not"} : qs.last = k
    /\ \E n \in ExprIds :
          /\ n > 2 /\ qs.exprs[n].sql.k = "and"
          /\ Len(ExprValue(qs, n).params) = 3
    /\ \E n \in ExprIds : n > 2 /\ qs.exprs[n].sql.k = "not"
    /\ ExprValue(qs, 1).params # <<>>
    /\ ExprValue(qs, 2).params # <<>>

ChainOps == {"filter", "exclude", "order_by", "limit"}

\* C23: filter, exclude, order_by and limit each return a new builder and
\* leave every builder that existed, the receiver among them, with the table,
\* adapter, expression, order field, descending flag and limit it had, so its
\* sql and params are the same before and after.
QueryChainPure ==
    [][QueryHeap /\ qs' # qs /\ qs'.last \in ChainOps =>
        /\ Len(qs'.queries) = Len(qs.queries) + 1
        /\ \A q \in QueryIds :
              /\ qs'.queries[q] = qs.queries[q]
              /\ SQLerQuery_build_query(qs', q) = SQLerQuery_build_query(qs, q)]_vars

\* Two different builders were derived from the first one, one of them by a
\* chain, and the first one still has no WHERE clause.
QueryChainPureWitness ==
    /\ QueryHeap
    /\ qs.last \in ChainOps
    /\ Len(qs.queries) = 3
    /\ qs.queries[2].expression # 0
    /\ qs.queries[3].order = "n"
    /\ qs.queries[3].expression = qs.queries[2].expression
    /\ SQLerQuery_build_query(qs, 1).sql.where = [k |-> "none"]


(***************************************************************************)
(* isin applied to lists of every small length, the result composed and    *)
(* run as a filter on tables of every small content.                       *)
(***************************************************************************)
MaxIsinRows == 2

IsinDocs ==
    {MapV([n |-> IntV(2), tags |-> IntV(1)]),
     MapV([n |-> IntV(1), tags |-> ListV(<<IntV(1)>>)]),
     MapV([tags |-> IntV(2)])}

IsinTables ==
    {{[_id |-> i, data |-> f[i]] : i \in 1..n} :
        f \in [1..MaxIsinRows -> IsinDocs], n \in 0..MaxIsinRows}

IsinValues == {<<>>, <<IntV(1)>>, <<IntV(1), IntV(2)>>}
IsinOthers == {SQLerField_compare(<<Key("n")>>, ">", IntV(1)),
               SQLerField_compare(<<Key("n")>>, "=", IntV(1))}

IsinFrame == UNCHANGED <<storeVars, safeVars, adapterVars, relVars, moreVars, bind, cn, tx>>

\* field("tags").isin(values)
IsinCall(values) ==
    /\ qs.pc = "start"
    /\ qs' = [qs EXCEPT !.pc = "leaf", !.values = values,
                        !.e = SQLerField_isin(TagsPath, values)]
    /\ IsinFrame

\* e & a, a & e, e | a, a | e, ~e
IsinCombine(op, a, left) ==
    /\ qs.pc = "leaf"
    /\ qs' = [qs EXCEPT !.pc = "combined", !.op = op, !.other = a,
                        !.e = CASE op = "and" /\ left -> SQLerExpression_and(qs.e, a)
                                [] op = "and" /\ ~left -> SQLerExpression_and(a, qs.e)
                                [] op = "or" /\ left -> SQLerExpression_or(qs.e, a)
                                [] op = "or" /\ ~left -> SQLerExpression_or(a, qs.e)
                                [] OTHER -> SQLerExpression_not(qs.e)]
    /\ IsinFrame

\* SQLerQuery(table, adapter).filter(e).all()
IsinAll ==
    /\ qs.pc \in {"leaf", "combined"}
    /\ qs' = [qs EXCEPT !.pc = "done", !.result = Select(qs.rows, qs.e)]
    /\ IsinFrame

InitIsin ==
    /\ InitRelIdle /\ InitBulkIdle /\ InitRetryIdle
    /\ InitConnected /\ InitSafeIdle /\ InitEmptyTable
    /\ bind = Unused /\ cn = Unused /\ tx = Unused
    /\ \E t \in IsinTables :
          qs = [pc |-> "start", rows |-> t, values |-> <<>>, e |-> Lit0,
                op |-> "none", other |-> Lit0, result |-> {}]

NextIsin ==
    \/ \E values \in IsinValues : IsinCall(values)
    \/ \E op \in {"and", "or"}, a \in IsinOthers, left \in BOOLEAN : IsinCombine(op, a, left)
    \/ \E a \in IsinOthers : IsinCombine("not", a, TRUE)
    \/ IsinAll

SpecIsin == InitIsin /\ [][NextIsin]_vars

IsinRun == "pc" \in DOMAIN qs /\ qs.pc # "start"

MaxPeaks == 2
MaxPathRows == 2
MzValues == {1, 3}
MzBounds == {0, 2}

MzPath == <<Key("qc"), Key("esi_ms"), Key("contaminant_peaks"), Key("mz")>>

Peak(mz) == MapV([mz |-> IntV(mz)])
Oligo(peaks) == MapV([qc |-> MapV([esi_ms |-> MapV([contaminant_peaks |-> peaks])])])
PeakLists == UNION {[1..n -> {Peak(z) : z \in MzValues}] : n \in 0..MaxPeaks}
PathDocs == {Oligo(ListV(l)) : l \in PeakLists} \cup {Oligo(Peak(z)) : z \in MzValues}
PathTables ==
    {{[_id |-> i, data |-> f[i]] : i \in 1..n} :
        f \in [1..MaxPathRows -> PathDocs], n \in 1..MaxPathRows}

PathFrame == UNCHANGED <<storeVars, safeVars, adapterVars, relVars, moreVars, bind, cn, tx>>

\* SQLerField(path) > bound
PathCompare(bound) ==
    /\ qs.pc = "start"
    /\ qs' = [qs EXCEPT !.pc = "built", !.bound = bound, !.any = FALSE,
                        !.e = SQLerField_compare(MzPath, ">", IntV(bound))]
    /\ PathFrame

\* SQLerField(path up to the array).any()["mz"] > bound
PathAnyCompare(bound) ==
    /\ qs.pc = "start"
    /\ qs' = [qs EXCEPT !.pc = "built", !.bound = bound, !.any = TRUE,
                        !.e = SQLerAnyExpression(MzPath, "contaminant_peaks", ">",
                                                 IntV(bound))]
    /\ PathFrame

\* SQLerQuery(table, adapter).filter(e).all()
PathAll ==
    /\ qs.pc = "built"
    /\ qs' = [qs EXCEPT !.pc = "done", !.result = Select(qs.rows, qs.e)]
    /\ PathFrame

InitPath ==
    /\ InitRelIdle /\ InitBulkIdle /\ InitRetryIdle
    /\ InitConnected /\ InitSafeIdle /\ InitEmptyTable
    /\ bind = Unused /\ cn = Unused /\ tx = Unused
    /\ \E t \in PathTables :
          qs = [pc |-> "start", rows |-> t, bound |-> 0, any |-> FALSE,
                e |-> Lit0, result |-> {}]

NextPath ==
    \/ \E bound \in MzBounds : PathCompare(bound)
    \/ \E bound \in MzBounds : PathAnyCompare(bound)
    \/ PathAll

SpecPath == InitPath /\ [][NextPath]_vars

\* The peaks of a document: the elements of contaminant_peaks when it is an
\* array.
PeaksOf(data) ==
    LET p == data.m["qc"].m["esi_ms"].m["contaminant_peaks"]
    IN  IF p.t = "list" THEN {p.l[n] : n \in 1..Len(p.l)} ELSE {}

SomePeakAbove(data, bound) == \E p \in PeaksOf(data) : p.m["mz"].v > bound

CrossesArray(data) == data.m["qc"].m["esi_ms"].m["contaminant_peaks"].t = "list"

\* C27: a comparison on a path that crosses an array of objects without an
\* index, written without any(), returns a document whose contaminant_peaks
\* is an array exactly when some element of the array satisfies it.
PathCrossingArrayMatchesAny ==
    "any" \in DOMAIN qs /\ qs.pc = "done" /\ ~qs.any =>
        \A r \in qs.rows :
            CrossesArray(r.data) => (r \in qs.result <=> SomePeakAbove(r.data, qs.bound))

\* The same comparison written with any() does select by the elements.
PathAnyMatchesAny ==
    "any" \in DOMAIN qs /\ qs.pc = "done" /\ qs.any =>
        \A r \in qs.rows :
            CrossesArray(r.data) => (r \in qs.result <=> SomePeakAbove(r.data, qs.bound))


(***************************************************************************)
(* Predicates that cross a reference (models/model_field.py).  User has an *)
(* attribute that refers to an Address; Address is bound to a table.       *)
(***************************************************************************)
MaxRefUsers == 2
MaxRefId == 3

\* How the attribute is annotated: Address, Address | None,
\* Optional[Address], or not a field of the model at all.
Annotations == {"class", "union", "optional", "missing"}
RefAttrs == {"address", "home"}
AddressTables == {"addresss", "addresses"}
Cities == {StrV("Kyoto"), StrV("Osaka")}

\* f"{first.lower()}s"
PluralOf(first) == IF first = "address" THEN "addresss" ELSE "homes"

\* getattr(rel_model, "_table", None): only the class itself carries it.
Annotation_table(ann, bound) == IF ann = "class" THEN bound ELSE "None"

\* getattr(rel_model, "__name__", ""): a union type has none.
Annotation_name(ann) ==
    CASE ann = "class" -> "Address"
      [] ann = "optional" -> "Optional"
      [] OTHER -> ""

ExistsSql(table, outer_table, first, rest, op) ==
    [k |-> "exists", table |-> table, outer_table |-> outer_table,
     first |-> first, rest |-> rest, op |-> op]

\* SQLerModelField._build_exists
SQLerModelField_build_exists(ann, bound, outer_table, first, rest, op, val) ==
    LET by_type == IF Annotation_table(ann, bound) # "None"
                   THEN Annotation_table(ann, bound)
                   ELSE Annotation_name(ann)
        table == IF ann = "missing" \/ by_type = "" THEN PluralOf(first) ELSE by_type
    IN  SQLerExpression(ExistsSql(table, outer_table, first, rest, op), <<val>>)

\* EXISTS (SELECT 1 FROM table r WHERE r._id = json_extract(outer.data,
\* '$.first._id') AND json_extract(r.data, rest) op ?) on one outer row.
exists_eval(db, e, u) ==
    \E r \in db[e.sql.table] :
        /\ sql_compare("=", IntV(r._id),
                       json_extract(u.data, <<Key(e.sql.first), Key("_id")>>)) = "T"
        /\ sql_compare(e.sql.op, json_extract(r.data, e.sql.rest), e.params[1]) = "T"

AddressRow(i, city) == [_id |-> i, data |-> MapV([city |-> city])]
AddressRows == {AddressRow(1, StrV("Kyoto")), AddressRow(2, StrV("Osaka"))}
\* What an earlier binding left in the default table.
StaleRows == {AddressRow(1, StrV("Osaka")), AddressRow(2, StrV("Kyoto"))}

RefTo(table, i) ==
    IF i = 0 THEN NoneV ELSE MapV([_table |-> StrV(table), _id |-> IntV(i)])
UserRow(i, attr, table, a) ==
    [_id |-> i, data |-> MapV((attr :> RefTo(table, a)) @@ [name |-> IntV(i)])]

RefFrame == UNCHANGED <<storeVars, safeVars, adapterVars, relVars, moreVars, bind, cn, tx>>

\* MF(User, [attr, "city"]) == val
RefCompare(val) ==
    /\ qs.pc = "start"
    /\ qs' = [qs EXCEPT !.pc = "built", !.val = val,
                        !.e = SQLerModelField_build_exists(qs.ann, qs.bound, "users",
                                  qs.attr, <<Key("city")>>, "=", val)]
    /\ RefFrame

\* User.query().filter(e).all(): the statement fails when it names a table
\* the database does not have.
RefAll ==
    /\ qs.pc = "built"
    /\ IF qs.e.sql.table \in DOMAIN qs.db
       THEN qs' = [qs EXCEPT !.pc = "done",
                             !.result = {u \in qs.db["users"] : exists_eval(qs.db, qs.e, u)}]
       ELSE qs' = [qs EXCEPT !.pc = "done", !.err = "OperationalError"]
    /\ RefFrame

InitRef ==
    /\ InitRelIdle /\ InitBulkIdle /\ InitRetryIdle
    /\ InitConnected /\ InitSafeIdle /\ InitEmptyTable
    /\ bind = Unused /\ cn = Unused /\ tx = Unused
    /\ \E ann \in Annotations, attr \in RefAttrs, bound \in AddressTables,
          stale \in BOOLEAN, f \in [1..MaxRefUsers -> 0..MaxRefId] :
          qs = [pc |-> "start", ann |-> ann, attr |-> attr, bound |-> bound,
                db |-> (bound :> AddressRows)
                       @@ (IF stale THEN [addresss |-> StaleRows] ELSE <<>>)
                       @@ [users |-> {UserRow(i, attr, bound, f[i]) : i \in 1..MaxRefUsers}],
                val |-> NoneV, e |-> Lit0, result |-> {}, err |-> "none"]

NextRef ==
    \/ \E val \in Cities : RefCompare(val)
    \/ RefAll

SpecRef == InitRef /\ [][NextRef]_vars

\* The outer rows whose reference names an existing row of the table bound
\* to Address whose city is val.
RefExpected ==
    {u \in qs.db["users"] :
        \E r \in qs.db[qs.bound] :
            /\ json_extract(u.data, <<Key(qs.attr), Key("_id")>>) = IntV(r._id)
            /\ json_extract(r.data, <<Key("city")>>) = qs.val}

\* C26: a cross-reference predicate selects exactly the outer records whose
\* reference names an existing row, satisfying the comparison, of the table
\* bound to the class of the referenced attribute, whether the attribute is
\* typed Address or optional Address; the plural of the attribute name is
\* the table only when the attribute has no known class.
CrossReferenceSelects ==
    "ann" \in DOMAIN qs /\ qs.pc = "done" =>
        IF qs.ann = "missing"
        THEN qs.e.sql.table = PluralOf(qs.attr)
        ELSE /\ qs.e.sql.table = qs.bound
             /\ qs.err = "none"
             /\ qs.result = RefExpected

\* With the attribute typed as the class itself the predicate does select
\* through the bound table.
CrossReferenceByClass ==
    "ann" \in DOMAIN qs /\ qs.pc = "done" /\ qs.ann = "class" =>
        qs.e.sql.table = qs.bound /\ qs.err = "none" /\ qs.result = RefExpected


(***************************************************************************)
(* One SQLerDB handle connecting, closing and reconnecting                 *)
(* (db/sqler_db.py, adapter/synchronous.py).  cn.connection is the         *)
(* adapter's connection (0 for None), cn.open the connections the engine   *)
(* holds open, cn.data the content of each database.  An on-disk path and  *)
(* the shared in-memory URI name one database for every connection; the    *)
(* private in-memory path gives every connection a database of its own.    *)
(***************************************************************************)
MaxCnConnects == 3
MaxCnId == 2
CnKinds == {"disk", "shared", "private"}
CnDocs == {"a", "b"}
NoData == [rows |-> {}, seq |-> 0]

\* The database a connection of this handle is attached to.
DatabaseOf(dbkind, c) == IF dbkind = "private" THEN c ELSE 0

\* What the engine keeps once the set of open connections is o: a file
\* stays; an in-memory database lives while a connection to it is open.
Surviving(dbkind, data, o) ==
    [d \in DOMAIN data |->
        IF dbkind = "disk" THEN data[d]
        ELSE IF dbkind = "shared" THEN (IF o = {} THEN NoData ELSE data[d])
        ELSE IF d \in o THEN data[d] ELSE NoData]

CnVisible(c) == c.data[DatabaseOf(c.kind, c.connection)].rows

CnFrame == UNCHANGED <<storeVars, safeVars, adapterVars, relVars, moreVars, bind, qs, tx>>

\* SQLerDB.connect -> SQLiteAdapter.connect: a connection is opened and
\* assigned; the one held before is not closed.  Whether it stays open is
\* decided by what else refers to it (a cursor the caller kept, the
\* runtime's collector): either outcome can follow.
CnConnect(old_released) ==
    /\ cn.opened < MaxCnConnects
    /\ LET new == cn.opened + 1
           o == (cn.open \cup {new}) \
                    (IF old_released /\ cn.connection # 0 THEN {cn.connection} ELSE {})
       IN  cn' = [cn EXCEPT !.connection = new, !.opened = new, !.open = o,
                            !.data = Surviving(cn.kind, cn.data, o),
                            !.last = [op |-> "connect", was |-> cn.connection]]
    /\ CnFrame

\* SQLerDB.close -> SQLiteAdapter.close
CnClose ==
    /\ LET o == cn.open \ {cn.connection}
       IN  cn' = [cn EXCEPT !.connection = 0, !.open = o,
                            !.data = Surviving(cn.kind, cn.data, o),
                            !.last = [op |-> "close", was |-> cn.connection]]
    /\ CnFrame

\* SQLerDB.insert_document on the current connection
CnInsert(doc) ==
    /\ cn.connection # 0
    /\ LET d == DatabaseOf(cn.kind, cn.connection)
           id == cn.data[d].seq + 1
       IN  /\ id <= MaxCnId
           /\ cn' = [cn EXCEPT !.data[d] = [rows |-> @.rows \cup {[_id |-> id, data |-> doc]},
                                            seq |-> id],
                               !.last = [op |-> "insert", was |-> cn.connection]]
    /\ CnFrame

InitConnect ==
    /\ InitRelIdle /\ InitBulkIdle /\ InitRetryIdle
    /\ InitConnected /\ InitSafeIdle /\ InitEmptyTable
    /\ bind = Unused /\ qs = Unused /\ tx = Unused
    /\ \E dbkind \in CnKinds :
          cn = [kind |-> dbkind, connection |-> 1, opened |-> 1, open |-> {1},
                data |-> [d \in 0..MaxCnConnects |-> NoData],
                last |-> [op |-> "init", was |-> 0]]

NextConnect ==
    \/ \E old_released \in BOOLEAN : CnConnect(old_released)
    \/ CnClose
    \/ \E doc \in CnDocs : CnInsert(doc)

SpecConnect == InitConnect /\ [][NextConnect]_vars

CnRun == "connection" \in DOMAIN cn

\* C28: connect on a connected handle is a no-op that keeps the connection:
\* every document inserted before is still found after, and no connection
\* is open without an owner.
ConnectKeepsConnection ==
    [][CnRun /\ cn.connection # 0 /\ (\E r \in BOOLEAN : CnConnect(r)) =>
        /\ cn'.connection = cn.connection
        /\ CnVisible(cn) \subseteq CnVisible(cn')
        /\ cn'.open \subseteq {cn'.connection}]_vars

\* On a closed handle connect does open a connection that the handle owns.
ConnectAfterClose ==
    [][CnRun /\ cn.connection = 0 /\ (\E r \in BOOLEAN : CnConnect(r)) =>
        cn'.connection # 0 /\ cn'.connection \in cn'.open]_vars

\* The documents survive a second connect on disk and in shared memory.
ConnectKeepsDocuments ==
    [][CnRun /\ cn.connection # 0 /\ cn.kind # "private"
         /\ (\E r \in BOOLEAN : CnConnect(r)) =>
        CnVisible(cn) \subseteq CnVisible(cn')]_vars


\* The row caller c is about to write is in the state c loaded: the version
\* and the value are those of c's snapshot.
StoredAsLoaded(c) ==
    /\ RowExists(DB, call[c].id)
    /\ Stored(DB, call[c].id)._version = rt[c].base.ver
    /\ StoredTier(DB, call[c].id) = rt[c].base.val

\* C29: a successful save of a loaded versioned record replaces the stored
\* payload only if the row's stored version equals the version the instance
\* obtained at its load; a writer whose load is older than the stored state
\* never overwrites it, with retry-on-stale set or unset.
NoLostUpdate ==
    [][\A c \in Callers :
          RoundSaveStmt(c) /\ rt[c].base # NoDoc /\ call[c].id # NoId
            /\ call'[c].err = "none" =>
              /\ inst[c]._version = rt[c].base.ver
              /\ StoredAsLoaded(c)]_vars

\* The asynchronous class does refuse the stale writer.
NoLostUpdateAsync ==
    [][\A c \in Callers :
          kind = "async" /\ RoundSaveStmt(c) /\ rt[c].base # NoDoc /\ call[c].id # NoId
            /\ call'[c].err = "none" =>
              StoredAsLoaded(c)]_vars


(***************************************************************************)
(* Two threads on one handle (db/sqler_db.py, adapter/synchronous.py): a   *)
(* writer calling insert_document, upsert_document or delete_document, and *)
(* a thread in a scoped block of the adapter.  There is one connection, so *)
(* one open transaction: tx.trows and tx.tseq are the table and its        *)
(* AUTOINCREMENT counter as the connection sees them, tx.rows and tx.seq   *)
(* what is committed.  Each step below runs under the adapter's lock.      *)
(***************************************************************************)
MaxTxId == 3
TxDocs == {"a", "b"}
TxIds == 1..MaxTxId
IdleWriter == [pc |-> "idle", op |-> "none", id |-> 0, doc |-> "a", ret |-> 0, hit |-> FALSE]

TxFrame == UNCHANGED <<storeVars, safeVars, adapterVars, relVars, moreVars, bind, qs, cn>>

\* connection.commit() and connection.rollback()
tx_commit(t) == [t EXCEPT !.rows = t.trows, !.seq = t.tseq]
tx_rollback(t) == [t EXCEPT !.trows = t.rows, !.tseq = t.seq]

\* The writer enters insert_document, upsert_document (with an id) or
\* delete_document.
WCall(op, id, doc) ==
    /\ tx.w.pc = "idle"
    /\ tx' = [tx EXCEPT !.w = [IdleWriter EXCEPT !.pc = "called", !.op = op,
                                   !.id = IF op = "insert" THEN 0 ELSE id,
                                   !.doc = doc]]
    /\ TxFrame

\* _ensure_table: the DDL, then commit.
WEnsure ==
    /\ tx.w.pc = "called"
    /\ tx' = [tx_commit(tx) EXCEPT !.w.pc = "ensured"]
    /\ TxFrame

\* adapter.execute(INSERT / UPDATE / DELETE): the statement joins the
\* connection's open transaction.
WExecute ==
    /\ tx.w.pc = "ensured"
    /\ tx.w.op = "insert" => tx.tseq < MaxTxId
    /\ LET w == tx.w
           new == tx.tseq + 1
           hit == \E r \in tx.trows : r._id = w.id
       IN  tx' = CASE w.op = "insert" ->
                      [tx EXCEPT !.trows = @ \cup {[_id |-> new, data |-> w.doc]},
                                 !.tseq = new,
                                 !.w.pc = "executed", !.w.ret = new]
                   [] w.op = "upsert" ->
                      [tx EXCEPT !.trows = {IF r._id = w.id
                                            THEN [r EXCEPT !.data = w.doc] ELSE r : r \in @},
                                 !.w.pc = "executed", !.w.ret = w.id, !.w.hit = hit]
                   [] OTHER ->
                      [tx EXCEPT !.trows = {r \in @ : r._id # w.id},
                                 !.w.pc = "executed", !.w.hit = hit]
    /\ TxFrame

\* adapter.commit()
WCommit ==
    /\ tx.w.pc = "executed"
    /\ tx' = [tx_commit(tx) EXCEPT !.w.pc = "committed"]
    /\ TxFrame

\* The call returns normally (cursor.lastrowid for an insert).
WReturn ==
    /\ tx.w.pc = "committed"
    /\ tx' = [tx EXCEPT !.w.pc = "idle",
                        !.handed = IF tx.w.op = "insert" THEN @ \cup {tx.w.ret} ELSE @]
    /\ TxFrame

\* __enter__ on the connected adapter
SEnter ==
    /\ ~tx.scoped
    /\ tx' = [tx EXCEPT !.scoped = TRUE]
    /\ TxFrame

\* A statement of the scoped block: adapter.execute(INSERT).
SExecute(doc) ==
    /\ tx.scoped
    /\ tx.tseq < MaxTxId
    /\ tx' = [tx EXCEPT !.trows = @ \cup {[_id |-> tx.tseq + 1, data |-> doc]},
                        !.tseq = @ + 1]
    /\ TxFrame

\* __exit__: commit, or rollback when the block raised.
SExit(raised) ==
    /\ tx.scoped
    /\ tx' = [(IF raised THEN tx_rollback(tx) ELSE tx_commit(tx)) EXCEPT !.scoped = FALSE]
    /\ TxFrame

InitDurable ==
    /\ InitRelIdle /\ InitBulkIdle /\ InitRetryIdle
    /\ InitConnected /\ InitSafeIdle /\ InitEmptyTable
    /\ bind = Unused /\ qs = Unused /\ cn = Unused
    /\ tx = [rows |-> {}, seq |-> 0, trows |-> {}, tseq |-> 0, w |-> IdleWriter,
             scoped |-> FALSE, handed |-> {}]

NextDurable ==
    \/ \E op \in {"insert", "upsert", "delete"}, id \in TxIds, doc \in TxDocs :
          WCall(op, id, doc)
    \/ WEnsure
    \/ WExecute
    \/ WCommit
    \/ WReturn
    \/ SEnter
    \/ \E doc \in TxDocs : SExecute(doc)
    \/ \E raised \in BOOLEAN : SExit(raised)

SpecDurable == InitDurable /\ [][NextDurable]_vars

TxRun == "handed" \in DOMAIN tx

\* C30: when a write of the document store returns normally, its effect is
\* committed whatever a scoped block of another thread did meanwhile: the
\* inserted row exists under the id returned, that id was not returned by an
\* earlier insert, a row the update found holds the new payload, a row the
\* delete found is gone.
ReturnedWriteIsDurable ==
    [][TxRun /\ WReturn =>
        LET w == tx.w
        IN  /\ w.op = "insert" =>
                  /\ \E r \in tx.rows : r._id = w.ret /\ r.data = w.doc
                  /\ w.ret \notin tx.handed
            /\ w.op = "upsert" /\ w.hit =>
                  \E r \in tx.rows : r._id = w.id /\ r.data = w.doc
            /\ w.op = "delete" /\ w.hit => ~ \E r \in tx.rows : r._id = w.id]_vars


(***************************************************************************)
(* Claims about close racing with the other adapter calls.                 *)
(***************************************************************************)
\* C31: a call of execute, executemany, executescript, commit or close that
\* races with close on another thread completes on the open connection or
\* fails with NotConnectedError (close returns); it never fails with another
\* error because the connection went away between its test and its use.
CloseRaceRaisesOnlyNotConnected ==
    \A t \in Callers :
        th[t].op \in Guarded \cup {"close"} =>
            th[t].res \in {"running", "ok", "none", "NotConnectedError"}


(***************************************************************************)
(* Claims about a save of a record whose row is gone.                      *)
(***************************************************************************)
\* C32: after save() on a record that has an id returns normally, a row with
\* that id exists and holds the saved payload, so from_id(id) returns the
\* saved state, also when the row was deleted through another instance after
\* the record was loaded.
SaveStoresRow ==
    [][\A c \in Callers :
          Save(c) /\ inst[c]._id # NoId /\ lastOp'.err = "none" =>
              LET after == [rows |-> rows', seq |-> seq']
                  got == SQLerModel_from_id(after, inst[c]._id)
              IN  /\ got.err = "none"
                  /\ got.inst = inst'[c]]_vars

\* While the row exists, the save does store the payload under the id.
SaveStoresExistingRow ==
    [][\A c \in Callers :
          Save(c) /\ inst[c]._id # NoId /\ RowExists(DB, inst[c]._id) =>
              LET after == [rows |-> rows', seq |-> seq']
                  got == SQLerModel_from_id(after, inst[c]._id)
              IN  got.err = "none" /\ got.inst = inst'[c]]_vars


(***************************************************************************)
(* from_id on rows that refer to rows of their own table (models/model.py).*)
(* A row has two attributes, a and b, each None (0) or a reference to a    *)
(* row id.  tx.stack is the chain of from_id calls in flight, outermost    *)
(* first; the interpreter raises RecursionError for a call that would make *)
(* the chain longer than RecLimit (sys.getrecursionlimit(), scaled down).  *)
(***************************************************************************)
NumNodes == 2
RecLimit == 4
NodeIds == 1..NumNodes
\* Targets of a stored reference: no reference, a row, or a row that is gone.
RefTargets == 0..(NumNodes + 1)

Frame(id) == [id |-> id, pc |-> "find"]
AfterField(pc) == IF pc = "a" THEN "b" ELSE "validate"

\* The caller's decode gets the value of the field it was resolving and
\* goes on to the next field.
ResumeCaller(stack) ==
    IF stack = <<>> THEN stack
    ELSE [stack EXCEPT ![Len(stack)].pc = AfterField(@)]

Pop(stack) == SubSeq(stack, 1, Len(stack) - 1)

\* The application calls Model.from_id(id).
CycleCall(id) ==
    /\ tx.pc = "idle"
    /\ tx' = [tx EXCEPT !.pc = "running", !.stack = <<Frame(id)>>, !.calls = 1]
    /\ TxFrame

\* from_id, lines 103-105: find_document; None when there is no row.
CycleFind ==
    /\ tx.pc = "running"
    /\ LET top == tx.stack[Len(tx.stack)]
       IN  /\ top.pc = "find"
           /\ IF top.id \in NodeIds
              THEN tx' = [tx EXCEPT !.stack[Len(tx.stack)].pc = "a"]
              ELSE LET rest == Pop(tx.stack)
                   IN  tx' = [tx EXCEPT !.stack = ResumeCaller(rest),
                                        !.pc = IF rest = <<>> THEN "returned" ELSE @]
    /\ TxFrame

\* _resolve_relations.decode on the next field: a reference dict is
\* resolved by mdl.from_id(rid); an exception of that call, RecursionError
\* included, is caught and the dict kept.
CycleDecode ==
    /\ tx.pc = "running"
    /\ LET top == tx.stack[Len(tx.stack)]
           rid == tx.refs[top.id][top.pc]
       IN  /\ top.pc \in {"a", "b"}
           /\ IF rid = 0
              THEN tx' = [tx EXCEPT !.stack = ResumeCaller(@)]
              ELSE IF Len(tx.stack) < RecLimit
              THEN tx' = [tx EXCEPT !.stack = Append(@, Frame(rid)), !.calls = @ + 1]
              ELSE tx' = [tx EXCEPT !.stack = ResumeCaller(@), !.overflowed = TRUE]
    /\ TxFrame

\* from_id, lines 106-110: model_validate and return.
CycleReturn ==
    /\ tx.pc = "running"
    /\ tx.stack[Len(tx.stack)].pc = "validate"
    /\ LET rest == Pop(tx.stack)
       IN  tx' = [tx EXCEPT !.stack = ResumeCaller(rest),
                            !.pc = IF rest = <<>> THEN "returned" ELSE @]
    /\ TxFrame

InitCycle ==
    /\ InitRelIdle /\ InitBulkIdle /\ InitRetryIdle
    /\ InitConnected /\ InitSafeIdle /\ InitEmptyTable
    /\ bind = Unused /\ qs = Unused /\ cn = Unused
    /\ \E refs \in [NodeIds -> [{"a", "b"} -> RefTargets]] :
          tx = [pc |-> "idle", refs |-> refs, stack |-> <<>>, calls |-> 0,
                overflowed |-> FALSE]

NextCycle ==
    \/ \E id \in NodeIds : CycleCall(id)
    \/ CycleFind
    \/ CycleDecode
    \/ CycleReturn

SpecCycle == InitCycle /\ [][NextCycle]_vars

CycleRun == "stack" \in DOMAIN tx

\* C33: from_id returns for every stored data set, cycles of references
\* included, and resolution does not recurse without bound: no row is
\* entered again while its own resolution is in flight, and the interpreter's
\* recursion limit is never what ends the descent.
ResolutionBounded ==
    CycleRun =>
        /\ \A i, j \in 1..Len(tx.stack) :
              i # j => tx.stack[i].id # tx.stack[j].id
        /\ ~tx.overflowed

\* When the stored references form no cycle, the descent is bounded by the
\* data.
Reaches(refs, n) == {refs[n]["a"], refs[n]["b"]} \cap NodeIds
Acyclic(refs) ==
    \A n \in NodeIds :
        /\ n \notin Reaches(refs, n)
        /\ \A k \in Reaches(refs, n) : n \notin Reaches(refs, k)

AcyclicResolutionBounded ==
    CycleRun /\ Acyclic(tx.refs) =>
        /\ Len(tx.stack) <= NumNodes + 1
        /\ ~tx.overflowed


(***************************************************************************)
(* SQLerQuery.first() while other threads insert and delete rows of the    *)
(* table (query/query.py).  first() is                                     *)
(*     self.limit(1).all()[0] if self.limit(1).all() else None             *)
(* so it runs the statement for the condition and, when that returned a    *)
(* row, runs it again for the value.                                       *)
(***************************************************************************)
MaxFirstId == 3
FirstVals == {1, 2}
FirstExpr == SQLerField_compare(<<Key("n")>>, ">", IntV(1))
FirstDoc(v) == MapV([n |-> IntV(v)])

\* SELECT data ... WHERE e LIMIT 1: no row, or one of the matching rows
\* (without ORDER BY the engine may return any).
Limit1(rs, e) ==
    IF Select(rs, e) = {} THEN {<<>>} ELSE {<<r>> : r \in Select(rs, e)}

FirstCall ==
    /\ qs.pc \in {"idle", "done"}
    /\ qs' = [qs EXCEPT !.pc = "cond", !.result = NoDoc, !.err = "none", !.seen = {}]
    /\ IsinFrame

\* The condition: self.limit(1).all()
FirstCond ==
    /\ qs.pc = "cond"
    /\ \E got \in Limit1(qs.rows, FirstExpr) :
          qs' = [qs EXCEPT !.pc = IF got = <<>> THEN "done" ELSE "value"]
    /\ IsinFrame

\* The value: self.limit(1).all()[0]
FirstValue ==
    /\ qs.pc = "value"
    /\ \E got \in Limit1(qs.rows, FirstExpr) :
          qs' = IF got = <<>>
                THEN [qs EXCEPT !.pc = "done", !.err = "IndexError"]
                ELSE [qs EXCEPT !.pc = "done", !.result = got[1],
                                !.seen = Select(qs.rows, FirstExpr)]
    /\ IsinFrame

\* Another thread's insert_document and delete_document.
FirstOtherInsert(v) ==
    /\ qs.seq < MaxFirstId
    /\ qs' = [qs EXCEPT !.rows = @ \cup {[_id |-> qs.seq + 1, data |-> FirstDoc(v)]},
                        !.seq = @ + 1]
    /\ IsinFrame

FirstOtherDelete(id) ==
    /\ \E r \in qs.rows : r._id = id
    /\ qs' = [qs EXCEPT !.rows = {r \in @ : r._id # id}]
    /\ IsinFrame

InitFirst ==
    /\ InitRelIdle /\ InitBulkIdle /\ InitRetryIdle
    /\ InitConnected /\ InitSafeIdle /\ InitEmptyTable
    /\ bind = Unused /\ cn = Unused /\ tx = Unused
    /\ qs = [pc |-> "idle", rows |-> {}, seq |-> 0, result |-> NoDoc, seen |-> {},
             err |-> "none"]

NextFirst ==
    \/ FirstCall
    \/ FirstCond
    \/ FirstValue
    \/ \E v \in FirstVals : FirstOtherInsert(v)
    \/ \E id \in 1..MaxFirstId : FirstOtherDelete(id)

SpecFirst == InitFirst /\ [][NextFirst]_vars

FirstRun == "seen" \in DOMAIN qs

\* C34: first() returns None or a row that matched when it was read, and
\* never raises because rows were inserted or deleted between its
\* statements.
FirstNeverRaises ==
    FirstRun =>
        /\ qs.err = "none"
        /\ qs.pc = "done" => (qs.result = NoDoc \/ qs.result \in qs.seen)

\* What first() returns, when it returns, is None or a row that matched.
FirstReturnsMatch ==
    FirstRun /\ qs.pc = "done" /\ qs.err = "none" =>
        (qs.result = NoDoc \/ qs.result \in qs.seen)


(***************************************************************************)
(* count() against all() for queries built by filter, exclude, order_by    *)
(* and limit on tables of every small content (query/query.py).            *)
(***************************************************************************)
MaxCountRows == 3
MaxCountLimit == 2
MaxChain == 3
CountVals == {1, 2}
CountLeaves == {SQLerField_compare(<<Key("n")>>, ">", IntV(1)),
                SQLerField_compare(<<Key("n")>>, "=", IntV(1))}
NoExpression == [none |-> TRUE]
CountTables ==
    {{[_id |-> i, data |-> FirstDoc(f[i])] : i \in 1..n} :
        f \in [1..MaxCountRows -> CountVals], n \in 0..MaxCountRows}

\* The rows the statement's WHERE clause lets through; an expression of None
\* (NoExpression) means no WHERE clause.
Matching(q) == IF q.expression = NoExpression THEN q.rows ELSE Select(q.rows, q.expression)

MinOf(a, b) == IF a < b THEN a ELSE b

\* SELECT data ... [ORDER BY ...] [LIMIT n]: the number of rows returned.
RowsReturned(q) ==
    IF q.limit = -1 THEN Cardinality(Matching(q))
    ELSE MinOf(q.limit, Cardinality(Matching(q)))

\* all(): the rows fetched; which ones a LIMIT keeps depends on the order.
SQLerQuery_all(q) == {T \in SUBSET Matching(q) : Cardinality(T) = RowsReturned(q)}

\* count(): "SELECT data" is replaced by "SELECT count(*)" in the built
\* statement, ORDER BY and LIMIT included.  The aggregate gives one row; the
\* LIMIT applies to that row, and no row reads as 0.
SQLerQuery_count(q) ==
    IF q.limit = 0 THEN 0 ELSE Cardinality(Matching(q))

CountChain(q) ==
    /\ qs.pc = "building"
    /\ qs.steps < MaxChain
    /\ qs' = [q EXCEPT !.steps = qs.steps + 1]
    /\ IsinFrame

\* filter(e): e, or self._expression & e
CountFilter(e) ==
    CountChain([qs EXCEPT !.expression = IF @ = NoExpression THEN e
                                         ELSE SQLerExpression_and(@, e)])

\* exclude(e): ~e, or self._expression & ~e
CountExclude(e) ==
    CountChain([qs EXCEPT !.expression = IF @ = NoExpression THEN SQLerExpression_not(e)
                                         ELSE SQLerExpression_and(@, SQLerExpression_not(e))])

CountOrderBy(desc) == CountChain([qs EXCEPT !.order = "n", !.desc = desc])

CountLimit(n) == CountChain([qs EXCEPT !.limit = n])

\* q.all() and q.count() on the unchanged table.
CountRun ==
    /\ qs.pc = "building"
    /\ \E got \in SQLerQuery_all(qs) :
          qs' = [qs EXCEPT !.pc = "done", !.all = got, !.count = SQLerQuery_count(qs)]
    /\ IsinFrame

InitCount ==
    /\ InitRelIdle /\ InitBulkIdle /\ InitRetryIdle
    /\ InitConnected /\ InitSafeIdle /\ InitEmptyTable
    /\ bind = Unused /\ cn = Unused /\ tx = Unused
    /\ \E t \in CountTables :
          qs = [pc |-> "building", rows |-> t, expression |-> NoExpression, order |-> "None",
                desc |-> FALSE, limit |-> -1, steps |-> 0, all |-> {}, count |-> 0]

NextCount ==
    \/ \E e \in CountLeaves : CountFilter(e)
    \/ \E e \in CountLeaves : CountExclude(e)
    \/ \E desc \in BOOLEAN : CountOrderBy(desc)
    \/ \E n \in 0..MaxCountLimit : CountLimit(n)
    \/ CountRun

SpecCount == InitCount /\ [][NextCount]_vars

CountDone == "count" \in DOMAIN qs /\ qs.pc = "done"

\* C35: for every query on an unchanged table, limit 0 and a limit smaller
\* than the number of matching rows included, count() equals the number of
\* rows all() returns.
CountEqualsAll == CountDone => qs.count = Cardinality(qs.all)

\* Without a limit, or with one that cuts nothing off, the two agree.
CountEqualsAllUnlimited ==
    CountDone /\ (qs.limit = -1 \/ qs.limit = 0 \/ qs.limit >= Cardinality(Matching(qs)))
        => qs.count = Cardinality(qs.all)


(***************************************************************************)
(* The adapter under fair scheduling (adapter/synchronous.py).  Every      *)
(* "with self._lock" is one RLock; a thread that holds it runs on, and a   *)
(* thread that requests it gets it when it is free again and again.        *)
(***************************************************************************)
MaxFairConnects == 1

\* What a thread does after its call began: the rest of connect, or the block
\* under "with self._lock", to the end of the block or to the raise.
Body(t) ==
    \/ ConnectEnd(t)
    \/ ExecuteBody(t)
    \/ \E op \in {"executemany", "executescript"} : CommittingBody(t, op)
    \/ CommitBody(t)
    \/ CloseBody(t)
    \/ ExitBody(t)
    \/ CursorReadBody(t)
    \/ CursorAttrEnd(t)

FairScheduling == \A t \in Callers : SF_vars(Acquire(t)) /\ WF_vars(Body(t))

\* connect and __enter__ while the adapter may still make a connection.
FairConnect(t) == nConn < MaxFairConnects /\ Connect(t)

FairEnter(t) == (conn = 0 => nConn < MaxFairConnects) /\ Enter(t)

NextAdapterFair ==
    \/ \E t \in Callers : FairConnect(t)
    \/ \E t \in Callers : ConnectEnd(t)
    \/ \E t \in Callers, op \in Guarded : Invoke(t, op)
    \/ \E t \in Callers : Close(t)
    \/ \E t \in Callers : FairEnter(t)
    \/ \E t \in Callers, how \in {"exit_ok", "exit_err"} : Exit(t, how)
    \/ \E t \in Callers : Acquire(t)
    \/ \E t \in Callers : ExecuteBody(t)
    \/ \E t \in Callers, op \in {"executemany", "executescript"} : CommittingBody(t, op)
    \/ \E t \in Callers : CommitBody(t)
    \/ \E t \in Callers : CloseBody(t)
    \/ \E t \in Callers : ExitBody(t)
    \/ \E t \in Callers : CursorRead(t)
    \/ \E t \in Callers : CursorReadBody(t)
    \/ \E t \in Callers : CursorAttr(t)
    \/ \E t \in Callers : CursorAttrEnd(t)

SpecAdapterFair == InitAdapter /\ [][NextAdapterFair]_vars /\ FairScheduling

\* C36: under fair scheduling every call a thread has begun (execute,
\* executemany, executescript, commit, a cursor read, the end of a scoped
\* block, close, connect) returns, with a result or an error; no thread waits
\* for the lock forever, also after a statement under the lock raised.
EveryCallReturns == \A t \in Callers : (th[t].pc # "idle") ~> (th[t].pc = "idle")

\* One thread waits for the lock while the other holds it for a statement
\* that is about to raise, the connection having been closed after its test.
EveryCallReturnsWitness ==
    \E t \in Callers, u \in Callers :
        /\ t # u
        /\ th[t].pc = "wait"
        /\ th[u].pc = "locked"
        /\ th[u].op \in Guarded
        /\ lockOwner = u
        /\ conn = 0

====
